---- MODULE Spec2Model ----
(***************************************************************************)
(* Model of the Leaderboards statistics tracker (src/models.py and its     *)
(* callers): the SQLite counter store with its monthly and all-time        *)
(* tables, the voice and activity session tables, and the operations that  *)
(* read and write them.                                                    *)
(*                                                                         *)
(* Every store operation opens its own connection (get_db), runs its       *)
(* statements in one implicit transaction and commits; an exception inside *)
(* the try block is logged and rolled back.  A store failure is an input   *)
(* of each operation: the point of the call at which sqlite3 raises.       *)
(***************************************************************************)
EXTENDS Integers, Sequences, FiniteSets, TLC

----------------------------------------------------------------------------
(* Bounds of the model *)

\* largest amount passed to a direct increment_stat call
MaxAmount == 2
\* cap on an all-time counter reached by direct increments
MaxCount == 3
\* last reading of the store clock (CURRENT_TIMESTAMP)
MaxTime == 1
\* number of session rows inserted, voice and activity together
MaxSessions == 2
\* largest LIMIT passed to get_top_stats
MaxLimit == 2
\* most items listed under one owner of a rental embed
MaxItems == 2
\* number of messages sent to the leaderboard channel
MaxMessages == 4
\* number of markers and mentions in the description of an attendance embed
MaxTokens == 4
\* event handlers in flight at a time
MaxTasks == 2
\* days of a month and months of a year in the calendar of the scheduler
DaysInMonth == 2
MonthsInYear == 2

Users == {"u1", "u2"}
Names == {"a", "b"}
Amounts == 1..MaxAmount
\* offset of the host's local time (datetime.now()) from UTC (CURRENT_TIMESTAMP)
TzOffsets == {-1, 0, 1}

----------------------------------------------------------------------------
(* The schema *)

\* The statistic columns, in the order of get_top_stats' stats_dict.
valid_stats ==
    << "voice_time", "message_count", "lineage_time", "reaction_count",
       "apollo_events", "party_count", "aq_calls", "rental_count",
       "screenshot_count" >>

StatNames == {valid_stats[i] : i \in 1..Len(valid_stats)}

\* stat_type values passed by the direct callers of the model: one column of
\* the allow-list and one name outside it (a real column of the table).
StatInputs == {"message_count", "username"}

\* The points at which the store can raise, per operation.
IncrementFails == {"none", "connect", "exec1", "exec2", "commit"}
ResetFails == {"none", "connect", "delete1", "delete2", "delete3", "commit"}
StartVoiceFails == {"none", "connect", "insert", "commit"}
StartActivityFails == {"none", "connect", "select", "insert", "commit"}
EndFails == {"none", "connect", "select", "update", "commit"}

VARIABLES
    monthly_stats,      \* rows of monthly_stats, in rowid order
    overall_stats,      \* rows of overall_stats, in rowid order
    voice_sessions,     \* rows of voice_sessions, in rowid order
    activity_sessions,  \* rows of activity_sessions, in rowid order
    voice_seq,          \* sqlite_sequence of voice_sessions (AUTOINCREMENT)
    activity_seq,       \* sqlite_sequence of activity_sessions
    clock,              \* the store clock, CURRENT_TIMESTAMP (UTC)
    tz,                 \* datetime.now() - CURRENT_TIMESTAMP on this host
    sum_monthly,        \* history: amounts committed per user/stat since the last reset
    sum_overall,        \* history: amounts committed per user/stat
    last_name,          \* history: username of the last committed increment per user
    voice_calls,        \* history: voice starts and ends per user since the last reset, where kept
    RENTAL_ITEM_COUNTS, \* trackers.RENTAL_ITEM_COUNTS: item count per owner name
    rental_log,         \* history: the observations of the last rental embed
    leaderboard_messages, \* rows of leaderboard_messages, in rowid order
    channel_messages,   \* the leaderboard channel: the messages sent and not deleted
    message_seq,        \* the id of the last message sent to the channel
    last_saved,         \* history: the id of the last save_leaderboard_message per kind
    publish_log,        \* history: what the last update_leaderboard did per kind
    bot_message,        \* the message of a bot that on_message is given
    dispatch,           \* history: the branch parse_bot_embeds took, the failed look-ups
    mention_log,        \* history: the mentions the last attendance or party embed gave
    sched,              \* the scheduler: the date, the running instances of each job
    sched_log,          \* history: the steps of the last month-end run, the winners announced
    tasks,              \* the event handlers in flight, each at its suspension point
    task_log,           \* history: the events delivered to the handlers
    last                \* history: the last call, its failure point and outcome

vars ==
    << monthly_stats, overall_stats, voice_sessions, activity_sessions,
       voice_seq, activity_seq, clock, tz, sum_monthly, sum_overall,
       last_name, voice_calls, RENTAL_ITEM_COUNTS, rental_log,
       leaderboard_messages, channel_messages, message_seq, last_saved,
       publish_log, bot_message, dispatch, mention_log, sched, sched_log,
       tasks, task_log, last >>

\* The state of the rental tracker, of the leaderboard publisher, and of both.
rental_vars == << RENTAL_ITEM_COUNTS, rental_log >>
board_vars ==
    << leaderboard_messages, channel_messages, message_seq, last_saved,
       publish_log >>
embed_vars == << bot_message, dispatch, mention_log >>
sched_vars == << sched, sched_log >>
task_vars == << tasks, task_log >>
bot_vars == << rental_vars, board_vars, embed_vars, sched_vars, task_vars >>

\* The state of the store: the tables, the clock and their history.
store_vars ==
    << monthly_stats, overall_stats, voice_sessions, activity_sessions,
       voice_seq, activity_seq, clock, tz, sum_monthly, sum_overall,
       last_name, voice_calls >>

----------------------------------------------------------------------------
(* Rows of the two statistics tables *)

\* INSERT INTO <table> (user_id, username, <stat_type>) VALUES (?, ?, ?):
\* the other columns take DEFAULT 0, updated_at DEFAULT CURRENT_TIMESTAMP.
NewStatRow(user_id, username, stat_type, amount, now) ==
    [ user_id |-> user_id,
      username |-> username,
      stats |-> [s \in StatNames |-> IF s = stat_type THEN amount ELSE 0],
      updated_at |-> now ]

\* Position of the row with primary key user_id, 0 when there is none.
RowIndex(table, user_id) ==
    IF \E i \in 1..Len(table) : table[i].user_id = user_id
    THEN CHOOSE i \in 1..Len(table) : table[i].user_id = user_id
    ELSE 0

\* Value of a counter, 0 when the user has no row.
StatValue(table, user_id, stat) ==
    IF RowIndex(table, user_id) = 0 THEN 0
    ELSE table[RowIndex(table, user_id)].stats[stat]

\* Mutant of Upsert: the conflict branch overwrites the counter with the new
\* amount and keeps the stored username.
UpsertOverwrites(table, user_id, username, stat_type, amount, now) ==
    LET i == RowIndex(table, user_id) IN
    IF i = 0
    THEN Append(table, NewStatRow(user_id, username, stat_type, amount, now))
    ELSE [table EXCEPT ![i].stats[stat_type] = amount,
                       ![i].updated_at = now]

\* INSERT ... ON CONFLICT(user_id) DO UPDATE SET username = excluded.username,
\* <stat> = <stat> + excluded.<stat>, updated_at = CURRENT_TIMESTAMP
Upsert(table, user_id, username, stat_type, amount, now) ==
    LET i == RowIndex(table, user_id) IN
    IF i = 0
    THEN Append(table, NewStatRow(user_id, username, stat_type, amount, now))
    ELSE [table EXCEPT ![i].username = username,
                       ![i].stats[stat_type] = @ + amount,
                       ![i].updated_at = now]

\* Mutant of Rollback: the statements run so far stay applied (autocommit).
RollbackKeepsWrites(snapshot, working) == working

\* conn.rollback(): the statements of the open transaction are undone.
Rollback(snapshot, working) == snapshot

\* Mutant of increment_stat: no allow-list check of stat_type.
increment_stat_unchecked(monthly, overall, user_id, username, stat_type, amount, now, fail) ==
    LET snapshot == [monthly |-> monthly, overall |-> overall]
        after2 == [monthly |-> Upsert(monthly, user_id, username, stat_type, amount, now),
                   overall |-> Upsert(overall, user_id, username, stat_type, amount, now)]
    IN
    IF fail = "connect" THEN [db |-> snapshot, outcome |-> "raised"]
    ELSE IF fail # "none" THEN [db |-> snapshot, outcome |-> "rolled_back"]
    ELSE [db |-> after2, outcome |-> "committed"]

\* increment_stat: the two upserts in one transaction of its own connection.
\* fail = "connect" is raised by get_db(), before the try block.
increment_stat(monthly, overall, user_id, username, stat_type, amount, now, fail) ==
    LET snapshot == [monthly |-> monthly, overall |-> overall]
        after1 == [monthly |-> Upsert(monthly, user_id, username, stat_type, amount, now),
                   overall |-> overall]
        after2 == [monthly |-> after1.monthly,
                   overall |-> Upsert(overall, user_id, username, stat_type, amount, now)]
    IN
    IF fail = "connect"
    THEN [db |-> snapshot, outcome |-> "raised"]
    ELSE IF stat_type \notin StatNames
    THEN [db |-> snapshot, outcome |-> "invalid"]
    ELSE IF fail = "exec1"
    THEN [db |-> Rollback(snapshot, snapshot), outcome |-> "rolled_back"]
    ELSE IF fail = "exec2"
    THEN [db |-> Rollback(snapshot, after1), outcome |-> "rolled_back"]
    ELSE IF fail = "commit"
    THEN [db |-> Rollback(snapshot, after2), outcome |-> "rolled_back"]
    ELSE [db |-> after2, outcome |-> "committed"]

----------------------------------------------------------------------------
(* get_top_stats *)

\* SELECT user_id, username, <stat> AS value FROM <table> WHERE <stat> > 0
RECURSIVE SelectPositive(_, _)
SelectPositive(table, stat) ==
    IF table = << >> THEN << >>
    ELSE LET r == table[Len(table)]
             front == SelectPositive(SubSeq(table, 1, Len(table) - 1), stat)
         IN IF r.stats[stat] > 0
            THEN Append(front, [user_id |-> r.user_id, username |-> r.username,
                                value |-> r.stats[stat]])
            ELSE front

\* Mutant of OrderByValueDesc: no ORDER BY, the rows come in rowid order.
OrderByRowid(rows) == rows

\* ORDER BY value DESC: rows of equal value stay in rowid order.
RECURSIVE OrderByValueDesc(_)
OrderByValueDesc(rows) ==
    IF rows = << >> THEN << >>
    ELSE LET x == rows[Len(rows)]
             t == OrderByValueDesc(SubSeq(rows, 1, Len(rows) - 1))
             k == Cardinality({i \in 1..Len(t) : t[i].value >= x.value})
         IN SubSeq(t, 1, k) \o << x >> \o SubSeq(t, k + 1, Len(t))

\* LIMIT ?: a negative limit is no limit in SQLite.
Limit(rows, n) ==
    IF n < 0 \/ n >= Len(rows) THEN rows ELSE SubSeq(rows, 1, n)

TopOf(table, stat, limit) == Limit(OrderByValueDesc(SelectPositive(table, stat)), limit)

\* get_top_stats: one query per statistic, in the order of stats_dict.  When
\* the query of the failAt-th statistic raises, that list and the later ones
\* stay empty; failAt = 0 means no query fails.
get_top_stats(table, limit, failAt) ==
    [s \in StatNames |->
        LET i == CHOOSE j \in 1..Len(valid_stats) : valid_stats[j] = s IN
        IF failAt > 0 /\ i >= failAt THEN << >> ELSE TopOf(table, s, limit)]

----------------------------------------------------------------------------
(* Session rows *)

\* Mutant of MostRecentActive: the look-up has no user_id = ? condition.
MostRecentActiveAnyUser(times, sessions, user_id) ==
    LET act == {i \in 1..Len(sessions) : sessions[i].is_active = 1}
    IN IF act = {} THEN 0
       ELSE CHOOSE i \in act :
               \A j \in act : \/ times[i] > times[j]
                              \/ times[i] = times[j] /\ i <= j

\* SELECT id, <time> FROM <sessions> WHERE user_id = ? AND is_active = 1
\* ORDER BY <time> DESC LIMIT 1: position of the row, 0 when there is none.
\* Rows of equal time come in rowid order.
MostRecentActive(times, sessions, user_id) ==
    LET act == {i \in 1..Len(sessions) :
                    sessions[i].user_id = user_id /\ sessions[i].is_active = 1}
    IN IF act = {} THEN 0
       ELSE CHOOSE i \in act :
               \A j \in act : \/ times[i] > times[j]
                              \/ times[i] = times[j] /\ i <= j

JoinTimes(sessions) == [i \in 1..Len(sessions) |-> sessions[i].join_time]
StartTimes(sessions) == [i \in 1..Len(sessions) |-> sessions[i].start_time]

\* DELETE FROM <sessions> WHERE is_active = 1
RECURSIVE DeleteActive(_)
DeleteActive(sessions) ==
    IF sessions = << >> THEN << >>
    ELSE LET r == sessions[Len(sessions)]
             front == DeleteActive(SubSeq(sessions, 1, Len(sessions) - 1))
         IN IF r.is_active = 1 THEN front ELSE Append(front, r)

\* int((datetime.now() - start).total_seconds())
Duration(now, start) == now - start


\* Mutant of start_voice_session: no INSERT for a user with an active row.
start_voice_session_dedup(sessions, seq, user_id, now, fail) ==
    IF fail = "none" /\ \A i \in 1..Len(sessions) :
                           ~(sessions[i].user_id = user_id
                             /\ sessions[i].is_active = 1)
    THEN [db |-> [sessions |-> Append(sessions,
                                 [id |-> seq + 1, user_id |-> user_id,
                                  join_time |-> now, is_active |-> 1]),
                  seq |-> seq + 1],
          outcome |-> "committed"]
    ELSE [db |-> [sessions |-> sessions, seq |-> seq],
          outcome |-> IF fail = "none" THEN "committed"
                      ELSE IF fail = "connect" THEN "raised"
                      ELSE "rolled_back"]

\* start_voice_session: always inserts a new active row (no look-up before).
start_voice_session(sessions, seq, user_id, now, fail) ==
    LET snapshot == [sessions |-> sessions, seq |-> seq]
        inserted == [sessions |-> Append(sessions,
                                    [id |-> seq + 1, user_id |-> user_id,
                                     join_time |-> now, is_active |-> 1]),
                     seq |-> seq + 1]
    IN
    IF fail = "connect" THEN [db |-> snapshot, outcome |-> "raised"]
    ELSE IF fail = "insert"
    THEN [db |-> Rollback(snapshot, snapshot), outcome |-> "rolled_back"]
    ELSE IF fail = "commit"
    THEN [db |-> Rollback(snapshot, inserted), outcome |-> "rolled_back"]
    ELSE [db |-> inserted, outcome |-> "committed"]

\* The user has a row with is_active = 1.
HasActive(sessions, user_id) ==
    \E i \in 1..Len(sessions) :
        sessions[i].user_id = user_id /\ sessions[i].is_active = 1

\* Mutant of start_activity_session: no look-up before the INSERT.
start_activity_session_no_lookup(sessions, seq, user_id, now, fail) ==
    IF fail = "none"
    THEN [db |-> [sessions |-> Append(sessions,
                                 [id |-> seq + 1, user_id |-> user_id,
                                  start_time |-> now, is_active |-> 1]),
                  seq |-> seq + 1],
          outcome |-> "committed"]
    ELSE [db |-> [sessions |-> sessions, seq |-> seq],
          outcome |-> IF fail = "connect" THEN "raised" ELSE "rolled_back"]

\* start_activity_session: inserts only when the look-up finds no active row.
start_activity_session(sessions, seq, user_id, now, fail) ==
    LET snapshot == [sessions |-> sessions, seq |-> seq]
        inserted == [sessions |-> Append(sessions,
                                    [id |-> seq + 1, user_id |-> user_id,
                                     start_time |-> now, is_active |-> 1]),
                     seq |-> seq + 1]
    IN
    IF fail = "connect" THEN [db |-> snapshot, outcome |-> "raised"]
    ELSE IF fail = "select"
    THEN [db |-> Rollback(snapshot, snapshot), outcome |-> "rolled_back"]
    ELSE IF HasActive(sessions, user_id)
    THEN [db |-> snapshot, outcome |-> "already_active"]
    ELSE IF fail = "insert"
    THEN [db |-> Rollback(snapshot, snapshot), outcome |-> "rolled_back"]
    ELSE IF fail = "commit"
    THEN [db |-> Rollback(snapshot, inserted), outcome |-> "rolled_back"]
    ELSE [db |-> inserted, outcome |-> "committed"]

\* UPDATE <sessions> SET is_active = 0 WHERE id = ?
MarkInactive(sessions, id) ==
    [i \in 1..Len(sessions) |->
        IF sessions[i].id = id THEN [sessions[i] EXCEPT !.is_active = 0]
        ELSE sessions[i]]

\* The body shared by end_voice_session and end_activity_session, which differ
\* in the table, the time column and the statistic.  i is the row the look-up
\* returned (0: none).  increment_stat runs on a connection of its own and
\* commits by itself; the UPDATE that follows is this connection's transaction.
\* inner is the failure point of the increment_stat call.
EndSession(monthly, overall, sessions, i, started, user_id, username, stat, utc_now, local_now, fail, inner) ==
    LET stats == [monthly |-> monthly, overall |-> overall]
        duration == Duration(local_now, started)
        inc == increment_stat(monthly, overall, user_id, username, stat,
                              duration, utc_now, inner)
        none == [stats |-> stats, sessions |-> sessions, counted |-> FALSE,
                 duration |-> 0]
    IN
    IF fail = "connect" THEN none @@ [outcome |-> "raised"]
    ELSE IF fail = "select" THEN none @@ [outcome |-> "rolled_back"]
    ELSE IF i = 0 THEN none @@ [outcome |-> "no_session"]
    ELSE IF inc.outcome = "raised" THEN none @@ [outcome |-> "rolled_back"]
    ELSE IF fail \in {"update", "commit"}
    THEN [stats |-> inc.db,
          sessions |-> Rollback(sessions,
                                IF fail = "commit"
                                THEN MarkInactive(sessions, sessions[i].id)
                                ELSE sessions),
          counted |-> inc.outcome = "committed", duration |-> duration,
          outcome |-> "rolled_back"]
    ELSE [stats |-> inc.db, sessions |-> MarkInactive(sessions, sessions[i].id),
          counted |-> inc.outcome = "committed", duration |-> duration,
          outcome |-> "committed"]

end_voice_session(monthly, overall, sessions, user_id, username, utc_now, local_now, fail, inner) ==
    LET i == MostRecentActive(JoinTimes(sessions), sessions, user_id) IN
    EndSession(monthly, overall, sessions, i,
               IF i = 0 THEN 0 ELSE sessions[i].join_time,
               user_id, username, "voice_time", utc_now, local_now, fail, inner)

end_activity_session(monthly, overall, sessions, user_id, username, utc_now, local_now, fail, inner) ==
    LET i == MostRecentActive(StartTimes(sessions), sessions, user_id) IN
    EndSession(monthly, overall, sessions, i,
               IF i = 0 THEN 0 ELSE sessions[i].start_time,
               user_id, username, "lineage_time", utc_now, local_now, fail, inner)

\* Mutant of reset_monthly_stats: the first statement empties overall_stats too.
reset_all_stats(monthly, overall, voice, activity, fail) ==
    IF fail = "none"
    THEN [db |-> [monthly |-> << >>, overall |-> << >>,
                  voice |-> DeleteActive(voice),
                  activity |-> DeleteActive(activity)],
          outcome |-> "committed"]
    ELSE [db |-> [monthly |-> monthly, overall |-> overall, voice |-> voice,
                  activity |-> activity],
          outcome |-> IF fail = "connect" THEN "raised" ELSE "rolled_back"]

\* reset_monthly_stats: the three DELETEs in one transaction.
reset_monthly_stats(monthly, overall, voice, activity, fail) ==
    LET snapshot == [monthly |-> monthly, overall |-> overall,
                     voice |-> voice, activity |-> activity]
        after1 == [snapshot EXCEPT !.monthly = << >>]
        after2 == [after1 EXCEPT !.voice = DeleteActive(voice)]
        after3 == [after2 EXCEPT !.activity = DeleteActive(activity)]
    IN
    IF fail = "connect" THEN [db |-> snapshot, outcome |-> "raised"]
    ELSE IF fail = "delete1"
    THEN [db |-> Rollback(snapshot, snapshot), outcome |-> "rolled_back"]
    ELSE IF fail = "delete2"
    THEN [db |-> Rollback(snapshot, after1), outcome |-> "rolled_back"]
    ELSE IF fail = "delete3"
    THEN [db |-> Rollback(snapshot, after2), outcome |-> "rolled_back"]
    ELSE IF fail = "commit"
    THEN [db |-> Rollback(snapshot, after3), outcome |-> "rolled_back"]
    ELSE [db |-> after3, outcome |-> "committed"]

----------------------------------------------------------------------------
(* The leaderboard publisher: leaderboard.update_leaderboard and the message
   references of models.py *)

\* The message_type values: the two leaderboards.
Kinds == {"monthly", "overall"}

\* The faults of a publish run: none, bot.get_channel returns None, or a
\* platform call (fetch_message, edit, send) for the message of one kind
\* raises an error other than NotFound.
PublishFaults == {"none", "no_channel", "http_monthly", "http_overall"}

\* save_leaderboard_message: INSERT OR REPLACE INTO leaderboard_messages
\* (message_type, message_id).  The table has no UNIQUE constraint on
\* message_type and the statement gives no id, so no row conflicts and a row
\* with the next rowid is added.
save_leaderboard_message(table, message_type, message_id) ==
    Append(table, [id |-> Len(table) + 1, message_type |-> message_type,
                   message_id |-> message_id])

\* get_leaderboard_message: SELECT message_id ... WHERE message_type = ?,
\* fetchone(): the first matching row in rowid order; 0 stands for None.
get_leaderboard_message(table, message_type) ==
    LET found == {i \in 1..Len(table) : table[i].message_type = message_type}
    IN IF found = {} THEN 0
       ELSE table[CHOOSE i \in found : \A j \in found : i <= j].message_id

\* channel.fetch_message(id) finds the message.
Exists(channel, id) == \E m \in channel : m.id = id

\* channel.send followed by save_leaderboard_message.
SendAndSave(board, kind) ==
    [table |-> save_leaderboard_message(board.table, kind, board.seq + 1),
     channel |-> board.channel \cup {[id |-> board.seq + 1, kind |-> kind]},
     seq |-> board.seq + 1,
     saved |-> [board.saved EXCEPT ![kind] = board.seq + 1]]

\* The part of update_leaderboard for one kind; msg_id is the reference read
\* at the start of the run.
PublishKind(board, kind, msg_id, raises) ==
    IF raises THEN [board |-> board, did |-> "raised"]
    ELSE IF msg_id # 0 /\ Exists(board.channel, msg_id)
    THEN [board |-> board, did |-> "edited"]
    ELSE IF msg_id # 0
    THEN [board |-> SendAndSave(board, kind), did |-> "recreated"]
    ELSE [board |-> SendAndSave(board, kind), did |-> "created"]

\* update_leaderboard: both references are read first, then the monthly
\* message is handled, then the overall one; an error other than NotFound
\* ends the run.
update_leaderboard(board, fault) ==
    LET monthly_msg_id == get_leaderboard_message(board.table, "monthly")
        overall_msg_id == get_leaderboard_message(board.table, "overall")
        m == PublishKind(board, "monthly", monthly_msg_id,
                         fault = "http_monthly")
        o == PublishKind(m.board, "overall", overall_msg_id,
                         fault = "http_overall")
    IN
    IF fault = "no_channel"
    THEN [board |-> board, did |-> [k \in Kinds |-> "-"]]
    ELSE IF m.did = "raised"
    THEN [board |-> board, did |-> [monthly |-> "raised", overall |-> "-"]]
    ELSE [board |-> o.board, did |-> [monthly |-> m.did, overall |-> o.did]]

----------------------------------------------------------------------------
(* The state machine *)

ZeroSums == [u \in Users |-> [s \in StatNames |-> 0]]

----------------------------------------------------------------------------
(* The rental tracker: trackers.parse_rental_embed *)

\* The members of the guild, in the order fetch_members yields them.
GuildMembers ==
    << [id |-> "u1", name |-> "n1", display_name |-> "a"],
       [id |-> "u2", name |-> "n2", display_name |-> "b"] >>

\* The owner names of rental embeds: "a" is the display name of a member,
\* "x" is the name of no member.
Owners == {"a", "x"}

\* A rental embed description: its "Má: <owner>" sections in order, each with
\* the number of item lines under it.
Sections == [owner : Owners, items : 0..MaxItems]
Descriptions ==
    {<< >>} \cup {<< s >> : s \in Sections}
            \cup {<< s, t >> : s, t \in Sections}

\* dict.get(key, default)
Get(dict, key, default) ==
    IF key \in DOMAIN dict THEN dict[key] ELSE default

\* dict[key] = value
Put(dict, key, value) ==
    [k \in DOMAIN dict \cup {key} |-> IF k = key THEN value ELSE dict[k]]

\* get_rental_item_count_by_username: re.search finds the first section of
\* the owner and counts its item lines; 0 when there is none.
get_rental_item_count_by_username(desc, username) ==
    LET found == {i \in 1..Len(desc) : desc[i].owner = username} IN
    IF found = {} THEN 0
    ELSE desc[CHOOSE i \in found : \A j \in found : i <= j].items

\* The first member fetch_members yields whose display_name or name is the
\* owner name; 0 when there is none.
FindMember(username) ==
    LET found == {i \in 1..Len(GuildMembers) :
                     \/ GuildMembers[i].display_name = username
                     \/ GuildMembers[i].name = username}
    IN IF found = {} THEN 0 ELSE CHOOSE i \in found : \A j \in found : i <= j

\* member.display_name of the member with the id.
DisplayName(user_id) ==
    LET i == CHOOSE j \in 1..Len(GuildMembers) : GuildMembers[j].id = user_id
    IN GuildMembers[i].display_name

\* for _ in range(n): increment_stat(member.id, member.display_name,
\* 'rental_count', 1).  calls counts the calls made, committed those that
\* committed; a call that raises ends the loop.
RECURSIVE IncrementTimes(_, _, _, _, _, _)
IncrementTimes(n, stats, member, now, fail, done) ==
    IF n = 0 \/ done.raised THEN [stats |-> stats] @@ done
    ELSE LET r == increment_stat(stats.monthly, stats.overall, member.id,
                                 member.display_name, "rental_count", 1,
                                 now, fail)
         IN IncrementTimes(n - 1, r.db, member, now, fail,
               [calls |-> done.calls + 1,
                committed |-> done.committed
                                 + (IF r.outcome = "committed" THEN 1 ELSE 0),
                raised |-> r.outcome = "raised"])

\* Mutant of StoredCount: a decrease leaves the stored count as it was.
StoredCountKeepsMax(previous_count, current_count) ==
    IF current_count > previous_count THEN current_count ELSE previous_count

\* RENTAL_ITEM_COUNTS[username] = current_count, after the branches.
StoredCount(previous_count, current_count) == current_count

\* Mutant of ObserveRental: the difference is taken from 0, not from the
\* stored count.
ObserveRentalFromZero(desc, username, st, now, lookup, fail) ==
    LET current_count == get_rental_item_count_by_username(desc, username)
        m == FindMember(username)
        inc == IF current_count > 0 /\ lookup = "ok" /\ m # 0
               THEN IncrementTimes(current_count, st.stats, GuildMembers[m],
                                   now, fail,
                                   [calls |-> 0, committed |-> 0,
                                    raised |-> FALSE])
               ELSE [stats |-> st.stats, calls |-> 0, committed |-> 0,
                     raised |-> FALSE]
    IN [stats |-> inc.stats,
        counts |-> Put(st.counts, username, current_count),
        log |-> Append(st.log,
                  [owner |-> username, previous |-> 0,
                   current |-> current_count, calls |-> inc.calls,
                   committed |-> inc.committed,
                   member |-> IF m = 0 THEN "-" ELSE GuildMembers[m].id,
                   failed |-> lookup # "ok" \/ inc.raised])]

\* One pass of the loop of parse_rental_embed, for the owner of one section.
\* lookup is the outcome of guild.fetch_members, fail the failure point of
\* the store during the increment_stat calls.
ObserveRental(desc, username, st, now, lookup, fail) ==
    LET current_count == get_rental_item_count_by_username(desc, username)
        previous_count == Get(st.counts, username, 0)
        item_diff == current_count - previous_count
        m == FindMember(username)
        inc == IF item_diff > 0 /\ lookup = "ok" /\ m # 0
               THEN IncrementTimes(item_diff, st.stats, GuildMembers[m], now,
                                   fail,
                                   [calls |-> 0, committed |-> 0,
                                    raised |-> FALSE])
               ELSE [stats |-> st.stats, calls |-> 0, committed |-> 0,
                     raised |-> FALSE]
    IN [stats |-> inc.stats,
        counts |-> Put(st.counts, username,
                       StoredCount(previous_count, current_count)),
        log |-> Append(st.log,
                  [owner |-> username, previous |-> previous_count,
                   current |-> current_count, calls |-> inc.calls,
                   committed |-> inc.committed,
                   member |-> IF m = 0 THEN "-" ELSE GuildMembers[m].id,
                   failed |-> item_diff > 0 /\ (lookup # "ok" \/ inc.raised)])]

\* parse_rental_embed from the k-th section on.
RECURSIVE RentalLoop(_, _, _, _, _, _)
RentalLoop(desc, k, st, now, lookup, fail) ==
    IF k > Len(desc) THEN st
    ELSE RentalLoop(desc, k + 1,
                    ObserveRental(desc, desc[k].owner, st, now, lookup, fail),
                    now, lookup, fail)

\* parse_rental_embed: every "Má: <owner>" match of the description is
\* observed in order.
parse_rental_embed(desc, counts, monthly, overall, now, lookup, fail) ==
    RentalLoop(desc, 1,
               [stats |-> [monthly |-> monthly, overall |-> overall],
                counts |-> counts, log |-> << >>],
               now, lookup, fail)

----------------------------------------------------------------------------
(* The embed dispatcher: trackers.parse_bot_embeds, parse_apollo_embed and
   parse_party_embed *)

\* config.BOT_NAMES, the names in ASCII.
BOT_NAMES ==
    [apollo |-> "Apollo", party_maker |-> "Party Jack",
     accounting |-> "Misicka z uctarny", rental |-> "Navratil"]

\* The author names of the messages of bots: the four of BOT_NAMES, one that
\* differs from a dispatched name by case only, and one of another bot.
AuthorNames ==
    {BOT_NAMES.apollo, BOT_NAMES.party_maker, BOT_NAMES.accounting,
     BOT_NAMES.rental, "apollo", "Other"}

\* The parts of a description the patterns of the extractors look for:
\* "✅ Accepted (N)", "❌", "Zakladatel:", a mention <@id>, an owner section
\* with its item lines, an amount, and any other text.
Accepted == [t |-> "accepted", a |-> "-", n |-> 0]
Declined == [t |-> "declined", a |-> "-", n |-> 0]
Founder == [t |-> "founder", a |-> "-", n |-> 0]
Text == [t |-> "text", a |-> "-", n |-> 0]
Mention(user_id) == [t |-> "mention", a |-> user_id, n |-> 0]
Section(owner, items) == [t |-> "section", a |-> owner, n |-> items]
Amount(k) == [t |-> "amount", a |-> "-", n |-> k]

\* A message of a bot: the author's name, whether the author is the tracker
\* itself, whether the message has an embed, and the title and description of
\* its first embed; << >> is the description that is None or empty.
Message(author, self, embed, title, description) ==
    [author |-> author, self |-> self, embed |-> embed, title |-> title,
     description |-> description]

NoMessage == Message("-", FALSE, FALSE, "-", << >>)
NoDispatch == [branch |-> "-", missing |-> {}, lookup |-> "ok"]

\* The descriptions of attendance announcements: markers and mentions.
ApolloTokens == {Accepted, Declined} \cup {Mention(u) : u \in Users}
AttendanceTexts ==
    UNION {[1..k -> ApolloTokens] : k \in 0..MaxTokens}
AttendanceMessages ==
    {Message(BOT_NAMES.apollo, FALSE, TRUE, "-", d) : d \in AttendanceTexts}

\* The messages of bots the dispatcher is given: each author, by the tracker
\* itself or not, with an embed or without, with the title of a new
\* transaction for the accounting bot, and with no description, a plain
\* text, an attendance list, a party founder, an owner section or an amount
\* with a mention.
DispatchTexts ==
    {<< >>, << Text >>, << Accepted, Mention("u1") >>,
     << Founder, Mention("u1") >>, << Section("a", 1) >>,
     << Amount(0 - 2), Mention("u1") >>}
Titles(author) ==
    IF author = BOT_NAMES.accounting THEN {"-", "new transaction"} ELSE {"-"}
DispatchMessages ==
    UNION {{Message(author, self, embed, title, d) :
               self \in BOOLEAN, embed \in BOOLEAN, title \in Titles(author),
               d \in DispatchTexts} : author \in AuthorNames}

\* Mutant of AcceptedSpan: the span runs to the end of the text.
AcceptedSpanToEnd(desc) ==
    LET marks == {i \in 1..Len(desc) : desc[i].t = "accepted"} IN
    IF marks = {} THEN << >>
    ELSE SubSeq(desc, (CHOOSE i \in marks : \A j \in marks : i <= j) + 1,
                Len(desc))

\* re.search(r'✅ Accepted \((\d+)\)([\s\S]*?)(?=❌|$)'), group 2: the text
\* after the first accepted marker up to the next "❌" or the end.
AcceptedSpan(desc) ==
    LET marks == {i \in 1..Len(desc) : desc[i].t = "accepted"}
        first == CHOOSE i \in marks : \A j \in marks : i <= j
        stops == {i \in (first + 1)..Len(desc) : desc[i].t = "declined"}
        stop == IF stops = {} THEN Len(desc) + 1
                ELSE CHOOSE i \in stops : \A j \in stops : i <= j
    IN IF marks = {} THEN << >> ELSE SubSeq(desc, first + 1, stop - 1)

\* re.findall(r'<@!?(\d+)>', text): the ids of the mentions, in order.
Mentions(text) ==
    LET found == SelectSeq(text, LAMBDA x : x.t = "mention")
    IN [i \in 1..Len(found) |-> found[i].a]

\* Mutant of CountMentions: the first look-up that raises ends the loop.
RECURSIVE CountMentionsUntilMissing(_, _, _, _, _, _, _)
CountMentionsUntilMissing(ids, k, st, stat, now, missing, fail) ==
    IF k > Len(ids) THEN st
    ELSE IF ids[k] \in missing
    THEN [st EXCEPT !.log = Append(@, [mention |-> ids[k], member |-> "-",
                                       committed |-> 0])]
    ELSE LET r == increment_stat(st.stats.monthly, st.stats.overall, ids[k],
                                 DisplayName(ids[k]), stat, 1, now, fail)
         IN CountMentionsUntilMissing(ids, k + 1,
               [stats |-> r.db,
                log |-> Append(st.log,
                          [mention |-> ids[k], member |-> ids[k],
                           committed |-> IF r.outcome = "committed" THEN 1
                                         ELSE 0])],
               stat, now, missing, fail)

\* try: member = fetch_member(user_id); increment_stat(user_id,
\* member.display_name, stat, 1); except: log.  For each id in order; the
\* look-up of an id in missing raises.
RECURSIVE CountMentions(_, _, _, _, _, _, _)
CountMentions(ids, k, st, stat, now, missing, fail) ==
    IF k > Len(ids) THEN st
    ELSE IF ids[k] \in missing
    THEN CountMentions(ids, k + 1,
            [st EXCEPT !.log = Append(@, [mention |-> ids[k], member |-> "-",
                                          committed |-> 0])],
            stat, now, missing, fail)
    ELSE LET r == increment_stat(st.stats.monthly, st.stats.overall, ids[k],
                                 DisplayName(ids[k]), stat, 1, now, fail)
         IN CountMentions(ids, k + 1,
               [stats |-> r.db,
                log |-> Append(st.log,
                          [mention |-> ids[k], member |-> ids[k],
                           committed |-> IF r.outcome = "committed" THEN 1
                                         ELSE 0])],
               stat, now, missing, fail)

\* parse_apollo_embed: one apollo_events for each mention of the accepted
\* span.
parse_apollo_embed(desc, stats, now, missing, fail) ==
    CountMentions(Mentions(AcceptedSpan(desc)), 1,
                  [stats |-> stats, log |-> << >>], "apollo_events", now,
                  missing, fail)

\* parse_party_embed: re.search(r'[Zz]akladatel[a]?:\s*<@!?(\d+)>'), the first
\* founder label that a mention follows; one party_count for that mention.
parse_party_embed(desc, stats, now, missing, fail) ==
    LET found == {i \in 1..(Len(desc) - 1) :
                     desc[i].t = "founder" /\ desc[i + 1].t = "mention"}
        first == CHOOSE i \in found : \A j \in found : i <= j
    IN CountMentions(IF found = {} THEN << >> ELSE << desc[first + 1].a >>, 1,
                     [stats |-> stats, log |-> << >>], "party_count", now,
                     missing, fail)

\* The owner sections of a description, as parse_rental_embed reads them.
RentalSections(desc) ==
    LET found == SelectSeq(desc, LAMBDA x : x.t = "section")
    IN [i \in 1..Len(found) |-> [owner |-> found[i].a, items |-> found[i].n]]

\* Mutant of Branch: the author's name is compared without regard to case.
BranchAnyCase(msg) ==
    IF ~msg.embed THEN "no_embed"
    ELSE IF msg.self THEN "own"
    ELSE IF msg.author \in {BOT_NAMES.apollo, "apollo"}
            /\ msg.description # << >>
    THEN "apollo"
    ELSE IF msg.author = BOT_NAMES.party_maker /\ msg.description # << >>
    THEN "party_maker"
    ELSE IF msg.author = BOT_NAMES.rental /\ msg.description # << >>
    THEN "rental"
    ELSE "unmatched"

\* The branch parse_bot_embeds takes for a message.
Branch(msg) ==
    IF ~msg.embed THEN "no_embed"
    ELSE IF msg.self THEN "own"
    ELSE IF msg.author = BOT_NAMES.apollo /\ msg.description # << >>
    THEN "apollo"
    ELSE IF msg.author = BOT_NAMES.party_maker /\ msg.description # << >>
    THEN "party_maker"
    ELSE IF msg.author = BOT_NAMES.rental /\ msg.description # << >>
    THEN "rental"
    ELSE "unmatched"

\* parse_bot_embeds: the extractor of the branch is run on the description of
\* the first embed; the other branches return or log.
parse_bot_embeds(msg, stats, counts, now, missing, lookup, fail) ==
    LET branch == Branch(msg)
        a == parse_apollo_embed(msg.description, stats, now, missing, fail)
        p == parse_party_embed(msg.description, stats, now, missing, fail)
        r == parse_rental_embed(RentalSections(msg.description), counts,
                                stats.monthly, stats.overall, now, lookup, fail)
    IN
    CASE branch = "apollo" ->
            [branch |-> branch, stats |-> a.stats, counts |-> counts,
             mentions |-> a.log, rentals |-> << >>]
      [] branch = "party_maker" ->
            [branch |-> branch, stats |-> p.stats, counts |-> counts,
             mentions |-> p.log, rentals |-> << >>]
      [] branch = "rental" ->
            [branch |-> branch, stats |-> r.stats, counts |-> r.counts,
             mentions |-> << >>, rentals |-> r.log]
      [] OTHER ->
            [branch |-> branch, stats |-> stats, counts |-> counts,
             mentions |-> << >>, rentals |-> << >>]

----------------------------------------------------------------------------
(* The scheduler: scheduler.setup_scheduler and the two jobs *)

\* The ids of the jobs add_job registers.
JobIds == {"update_leaderboard", "monthly_reset"}

\* add_job is given no max_instances: the scheduler's default applies, one
\* running instance per job.
max_instances == 1

\* Mutant of CanStart: two instances of a job may run.
CanStartSecond(instances) == Len(instances) < max_instances + 1

\* The executor accepts a run of a job while fewer than max_instances
\* instances of it are running; otherwise the run is skipped.
CanStart(instances) == Len(instances) < max_instances

\* The step at which an instance of the job begins: update_leaderboard_task
\* calls update_leaderboard, monthly_reset_task announces the winners.
FirstStep(job) == IF job = "update_leaderboard" THEN "update" ELSE "announce"

\* now + timedelta(days=1)
Tomorrow(date) ==
    IF date.day < DaysInMonth
    THEN [month |-> date.month, day |-> date.day + 1]
    ELSE [month |-> (date.month % MonthsInYear) + 1, day |-> 1]

\* Mutant of MonthEnd: the sequence runs on every day.
MonthEndEveryDay(date) == date.day = date.day

\* monthly_reset_task: tomorrow.month != now.month
MonthEnd(date) == Tomorrow(date).month # date.month

\* The faults of announce_monthly_winners: none, bot.get_channel returns
\* None, or get_top_stats or channel.send raises.
AnnounceFaults == {"none", "no_channel", "raises"}

\* config.TOP_LIMIT
TOP_LIMIT == 4

\* The keys of config.STAT_CATEGORIES: every statistic but rental_count.
STAT_CATEGORIES == StatNames \ {"rental_count"}

\* The fields of the announcement: for each category that somebody has, the
\* first row of get_top_stats('monthly_stats', TOP_LIMIT).
Winners(monthly) ==
    LET top == get_top_stats(monthly, TOP_LIMIT, 0) IN
    [s \in STAT_CATEGORIES |->
        IF top[s] = << >> THEN << >> ELSE << top[s][1] >>]

NoWinners == [s \in STAT_CATEGORIES |-> << >>]

\* The scheduler has started: the first day of a month, no job runs.
NoSched ==
    [date |-> [month |-> 1, day |-> 1], ticked |-> FALSE,
     running |-> [j \in JobIds |-> << >>]]

NoSchedLog == [steps |-> << >>, sent |-> FALSE, announced |-> NoWinners]

\* No event has been delivered.
NoTaskLog ==
    [event |-> "-", delivered |-> ZeroSums, gain |-> [o \in Owners |-> 0],
     presence |-> [u \in Users |-> "-"], failed |-> FALSE,
     overtaken |-> [u \in Users |-> FALSE]]

\* The instances of a job after its i-th instance moved to a step, or ended.
Moved(instances, i, step) == [instances EXCEPT ![i] = step]
Ended(instances, i) ==
    SubSeq(instances, 1, i - 1) \o SubSeq(instances, i + 1, Len(instances))

----------------------------------------------------------------------------
(* The actions *)

\* No voice start or end was called; unmatched: an end was called when
\* every start had its end.
NoCalls == [u \in Users |-> [starts |-> 0, ends |-> 0, unmatched |-> FALSE]]

\* The history of voice calls is kept by the behaviours that begin with it.
Kept(calls) == DOMAIN calls # {}

\* The record of a call: the operation, its argument (the stat_type of an
\* increment_stat call, the user of a session call), the point at which the
\* store failed, and the outcome.
Call(op, arg, fail, outcome) ==
    [op |-> op, arg |-> arg, fail |-> fail, outcome |-> outcome]

\* datetime.now(): the host's local time.
LocalNow == clock + tz

InitTrackers ==
    /\ monthly_stats = << >>
    /\ overall_stats = << >>
    /\ voice_sessions = << >>
    /\ activity_sessions = << >>
    /\ voice_seq = 0
    /\ activity_seq = 0
    /\ clock = 0
    /\ tz \in TzOffsets
    /\ sum_monthly = ZeroSums
    /\ sum_overall = ZeroSums
    /\ last_name = [u \in Users |-> "-"]
    /\ RENTAL_ITEM_COUNTS = << >>
    /\ rental_log = << >>
    /\ leaderboard_messages = << >>
    /\ channel_messages = {}
    /\ message_seq = 0
    /\ last_saved = [k \in Kinds |-> 0]
    /\ publish_log = [k \in Kinds |-> "-"]
    /\ dispatch = NoDispatch
    /\ mention_log = << >>
    /\ sched = NoSched
    /\ sched_log = NoSchedLog
    /\ tasks = << >>
    /\ task_log = NoTaskLog
    /\ last = Call("init", "-", "none", "committed")

\* The state after construction on a host whose local time is UTC.
\* No message of a bot has been posted.
Init == InitTrackers /\ bot_message = NoMessage /\ voice_calls = << >>

InitUTC == Init /\ tz = 0

\* A bot has posted a message.
InitDispatch ==
    InitTrackers /\ tz = 0 /\ bot_message \in DispatchMessages
                 /\ voice_calls = << >>

\* An attendance announcement has been posted.
InitAttendance ==
    InitTrackers /\ tz = 0 /\ bot_message \in AttendanceMessages
                 /\ voice_calls = << >>

\* The host is on UTC and the history of voice calls is kept.
InitJoins ==
    InitTrackers /\ tz = 0 /\ bot_message = NoMessage /\ voice_calls = NoCalls

\* Time passes.
Tick ==
    /\ clock < MaxTime
    /\ clock' = clock + 1
    /\ last' = Call("tick", "-", "none", "committed")
    /\ UNCHANGED << monthly_stats, overall_stats, voice_sessions,
                    activity_sessions, voice_seq, activity_seq, tz,
                    sum_monthly, sum_overall, last_name, voice_calls,
                    bot_vars >>

\* The history of committed increments.
Record(user_id, username, stat, amount, counted) ==
    IF counted
    THEN /\ sum_monthly' = [sum_monthly EXCEPT ![user_id][stat] = @ + amount]
         /\ sum_overall' = [sum_overall EXCEPT ![user_id][stat] = @ + amount]
         /\ last_name' = [last_name EXCEPT ![user_id] = username]
    ELSE UNCHANGED << sum_monthly, sum_overall, last_name >>

\* The counter stays within the cap of the model.
WithinCap(table, user_id, stat) ==
    /\ StatValue(table, user_id, stat) <= MaxCount
    /\ StatValue(table, user_id, stat) >= -MaxCount

\* A direct call increment_stat(user_id, username, stat_type, amount).
IncrementStat(user_id, username, stat_type, amount, fail) ==
    \E r \in {increment_stat(monthly_stats, overall_stats, user_id, username,
              stat_type, amount, clock, fail)} :
       /\ stat_type \in StatNames => WithinCap(r.db.overall, user_id, stat_type)
       /\ monthly_stats' = r.db.monthly
       /\ overall_stats' = r.db.overall
       /\ Record(user_id, username, stat_type, amount, r.outcome = "committed")
       /\ last' = Call("increment_stat", stat_type, fail, r.outcome)
       /\ UNCHANGED << voice_sessions, activity_sessions, voice_seq,
                       activity_seq, clock, tz, voice_calls,
                       bot_vars >>

Resetting(fail, op) ==
    \E r \in {reset_monthly_stats(monthly_stats, overall_stats,
              voice_sessions, activity_sessions, fail)} :
       /\ monthly_stats' = r.db.monthly
       /\ overall_stats' = r.db.overall
       /\ voice_sessions' = r.db.voice
       /\ activity_sessions' = r.db.activity
       /\ sum_monthly' = IF r.outcome = "committed" THEN ZeroSums ELSE sum_monthly
       /\ voice_calls' = IF r.outcome = "committed" /\ Kept(voice_calls)
                         THEN NoCalls ELSE voice_calls
       /\ last' = Call(op, "-", fail, r.outcome)
       /\ UNCHANGED << voice_seq, activity_seq, clock, tz, sum_overall,
                       last_name >>

\* A call reset_monthly_stats().
ResetMonthlyStats(fail) ==
    Resetting(fail, "reset_monthly_stats") /\ UNCHANGED bot_vars

\* start_voice_session(user_id, username), whoever calls it.
StartingVoice(user_id, fail) ==
    \E r \in {start_voice_session(voice_sessions, voice_seq, user_id, clock,
              fail)} :
       /\ r.db.seq + activity_seq <= MaxSessions
       /\ voice_sessions' = r.db.sessions
       /\ voice_seq' = r.db.seq
       /\ voice_calls' = IF r.outcome = "committed" /\ Kept(voice_calls)
                         THEN [voice_calls EXCEPT ![user_id].starts = @ + 1]
                         ELSE voice_calls
       /\ last' = Call("start_voice_session", user_id, fail, r.outcome)
       /\ UNCHANGED << monthly_stats, overall_stats, activity_sessions,
                       activity_seq, clock, tz, sum_monthly, sum_overall,
                       last_name >>

StartVoiceSession(user_id, fail) ==
    StartingVoice(user_id, fail) /\ UNCHANGED bot_vars

\* start_activity_session(user_id, username), whoever calls it.
StartingActivity(user_id, fail) ==
    \E r \in {start_activity_session(activity_sessions, activity_seq,
              user_id, clock, fail)} :
       /\ voice_seq + r.db.seq <= MaxSessions
       /\ activity_sessions' = r.db.sessions
       /\ activity_seq' = r.db.seq
       /\ last' = Call("start_activity_session", user_id, fail, r.outcome)
       /\ UNCHANGED << monthly_stats, overall_stats, voice_sessions, voice_seq,
                       clock, tz, sum_monthly, sum_overall, last_name,
                       voice_calls >>

StartActivitySession(user_id, fail) ==
    StartingActivity(user_id, fail) /\ UNCHANGED bot_vars

\* The increment_stat call of an end_*_session is reached when the connection
\* opened, the look-up succeeded and found a row.
InnerFails(sessions, user_id, fail) ==
    IF fail \notin {"connect", "select"} /\ HasActive(sessions, user_id)
    THEN IncrementFails ELSE {"none"}

\* The failure recorded for an end_*_session call: the failure of its own
\* connection, or else that of the increment_stat call inside it.
EndFailure(fail, inner) ==
    IF fail = "none" /\ inner # "none" THEN "increment" ELSE fail

\* The history of voice calls after an end that returned without a failure
\* of its own statements.
EndCalled(calls, user_id, outcome) ==
    IF outcome \notin {"committed", "no_session"} \/ ~Kept(calls) THEN calls
    ELSE IF calls[user_id].ends < calls[user_id].starts
    THEN [calls EXCEPT ![user_id].ends = @ + 1]
    ELSE [calls EXCEPT ![user_id].unmatched = TRUE]

\* end_voice_session(user_id, username), whoever calls it.
EndingVoice(user_id, username, fail, inner) ==
    /\ inner \in InnerFails(voice_sessions, user_id, fail)
    /\ \E r \in {end_voice_session(monthly_stats, overall_stats,
                 voice_sessions, user_id, username, clock, LocalNow, fail,
                 inner)} :
          /\ WithinCap(r.stats.overall, user_id, "voice_time")
          /\ WithinCap(r.stats.monthly, user_id, "voice_time")
          /\ monthly_stats' = r.stats.monthly
          /\ overall_stats' = r.stats.overall
          /\ voice_sessions' = r.sessions
          /\ Record(user_id, username, "voice_time", r.duration, r.counted)
          /\ voice_calls' = EndCalled(voice_calls, user_id, r.outcome)
          /\ last' = Call("end_voice_session", user_id,
                         EndFailure(fail, inner), r.outcome)
          /\ UNCHANGED << activity_sessions, voice_seq, activity_seq, clock, tz >>

EndVoiceSession(user_id, username, fail, inner) ==
    EndingVoice(user_id, username, fail, inner) /\ UNCHANGED bot_vars

\* end_activity_session(user_id, username), whoever calls it.
EndingActivity(user_id, username, fail, inner) ==
    /\ inner \in InnerFails(activity_sessions, user_id, fail)
    /\ \E r \in {end_activity_session(monthly_stats, overall_stats,
                 activity_sessions, user_id, username, clock, LocalNow, fail,
                 inner)} :
          /\ WithinCap(r.stats.overall, user_id, "lineage_time")
          /\ WithinCap(r.stats.monthly, user_id, "lineage_time")
          /\ monthly_stats' = r.stats.monthly
          /\ overall_stats' = r.stats.overall
          /\ activity_sessions' = r.sessions
          /\ Record(user_id, username, "lineage_time", r.duration, r.counted)
          /\ last' = Call("end_activity_session", user_id,
                         EndFailure(fail, inner), r.outcome)
          /\ UNCHANGED << voice_sessions, voice_seq, activity_seq, clock, tz,
                          voice_calls >>

EndActivitySession(user_id, username, fail, inner) ==
    EndingActivity(user_id, username, fail, inner) /\ UNCHANGED bot_vars

\* The store failures during the increment_stat calls of an embed handler.
EmbedFails == {"none", "connect", "commit"}
\* The outcomes of a member look-up (fetch_member, fetch_members).
Lookups == {"ok", "raises"}

\* The number of committed increments the log holds for a user.
RECURSIVE Committed(_, _)
Committed(log, user_id) ==
    IF log = << >> THEN 0
    ELSE (IF log[Len(log)].member = user_id THEN log[Len(log)].committed
          ELSE 0)
         + Committed(SubSeq(log, 1, Len(log) - 1), user_id)

\* The history of committed increments after an embed handler that added
\* to one statistic of the members.
RecordLog(log, stat) ==
    \E c \in {[u \in Users |-> Committed(log, u)]} :
       IF \A u \in Users : c[u] = 0
       THEN UNCHANGED << sum_monthly, sum_overall, last_name >>
       ELSE /\ sum_monthly' = [u \in Users |->
                  [sum_monthly[u] EXCEPT ![stat] = @ + c[u]]]
            /\ sum_overall' = [u \in Users |->
                  [sum_overall[u] EXCEPT ![stat] = @ + c[u]]]
            /\ last_name' = [u \in Users |->
                  IF c[u] > 0 THEN DisplayName(u) ELSE last_name[u]]

\* A failure is an input of the run only when the run reaches its point: the
\* member look-up is made for an increase, the store is used for a resolved
\* member.
Reached(desc, counts, lookup, fail) ==
    LET increased == {o \in Owners :
                        /\ \E i \in 1..Len(desc) : desc[i].owner = o
                        /\ get_rental_item_count_by_username(desc, o)
                              > Get(counts, o, 0)}
    IN /\ lookup # "ok" => increased # {}
       /\ fail # "none" =>
             lookup = "ok" /\ \E o \in increased : FindMember(o) # 0

\* A rental embed is processed: parse_rental_embed(guild, embed).
ParseRentalEmbed(desc, lookup, fail) ==
    /\ Reached(desc, RENTAL_ITEM_COUNTS, lookup, fail)
    /\ \E r \in {parse_rental_embed(desc, RENTAL_ITEM_COUNTS, monthly_stats,
                 overall_stats, clock, lookup, fail)} :
          /\ \A u \in Users : WithinCap(r.stats.overall, u, "rental_count")
          /\ monthly_stats' = r.stats.monthly
          /\ overall_stats' = r.stats.overall
          /\ RENTAL_ITEM_COUNTS' = r.counts
          /\ rental_log' = r.log
          /\ RecordLog(r.log, "rental_count")
          /\ last' = Call("parse_rental_embed", "-", fail, "returned")
          /\ UNCHANGED << voice_sessions, activity_sessions, voice_seq,
                          activity_seq, clock, tz, voice_calls, board_vars,
                          embed_vars, sched_vars, task_vars >>

\* The statistics the embed handlers add to.
EmbedStats == {"apollo_events", "party_count", "rental_count"}

\* The ids an attendance or party embed looks up.
LookedUp(msg) ==
    IF Branch(msg) = "apollo" THEN Mentions(AcceptedSpan(msg.description))
    ELSE LET log == parse_party_embed(msg.description,
                       [monthly |-> << >>, overall |-> << >>], 0, Users,
                       "none").log
         IN [i \in 1..Len(log) |-> log[i].mention]

\* A failure is an input of the dispatch only when the branch reaches its
\* point: fetch_member is called for the mentions of an attendance or party
\* embed, the store is used for a member that was found, and the rental
\* branch is as in Reached.
DispatchReached(msg, counts, missing, lookup, fail) ==
    LET ids == LookedUp(msg)
        looked == {ids[i] : i \in 1..Len(ids)}
    IN
    CASE Branch(msg) \in {"apollo", "party_maker"} ->
            /\ lookup = "ok"
            /\ missing \subseteq looked
            /\ fail # "none" => looked \ missing # {}
      [] Branch(msg) = "rental" ->
            /\ missing = {}
            /\ Reached(RentalSections(msg.description), counts, lookup, fail)
      [] OTHER -> missing = {} /\ lookup = "ok" /\ fail = "none"

\* on_message for the message of a bot: parse_bot_embeds(bot, message).
OnBotMessage(missing, lookup, fail) ==
    /\ bot_message # NoMessage
    /\ DispatchReached(bot_message, RENTAL_ITEM_COUNTS, missing, lookup, fail)
    /\ \E r \in {parse_bot_embeds(bot_message,
                    [monthly |-> monthly_stats, overall |-> overall_stats],
                    RENTAL_ITEM_COUNTS, clock, missing, lookup, fail)} :
          /\ \A u \in Users, stat \in EmbedStats :
                WithinCap(r.stats.overall, u, stat)
          /\ monthly_stats' = r.stats.monthly
          /\ overall_stats' = r.stats.overall
          /\ RENTAL_ITEM_COUNTS' = r.counts
          /\ rental_log' = IF r.branch = "rental" THEN r.rentals
                           ELSE rental_log
          /\ mention_log' = r.mentions
          /\ dispatch' = [branch |-> r.branch, missing |-> missing,
                          lookup |-> lookup]
          /\ CASE r.branch = "apollo" -> RecordLog(r.mentions, "apollo_events")
               [] r.branch = "party_maker" ->
                     RecordLog(r.mentions, "party_count")
               [] r.branch = "rental" -> RecordLog(r.rentals, "rental_count")
               [] OTHER -> UNCHANGED << sum_monthly, sum_overall, last_name >>
          /\ last' = Call("on_message", bot_message.author, fail, "returned")
          /\ UNCHANGED << voice_sessions, activity_sessions, voice_seq,
                          activity_seq, clock, tz, voice_calls, board_vars,
                          bot_message, sched_vars, task_vars >>

\* What update_leaderboard(bot) does to the channel and to the references.
Publishing(fault) ==
    \E r \in {update_leaderboard(
                 [table |-> leaderboard_messages, channel |-> channel_messages,
                  seq |-> message_seq, saved |-> last_saved], fault)} :
       /\ r.board.seq <= MaxMessages
       /\ leaderboard_messages' = r.board.table
       /\ channel_messages' = r.board.channel
       /\ message_seq' = r.board.seq
       /\ last_saved' = r.board.saved
       /\ publish_log' = r.did

\* A publish run: update_leaderboard(bot), from the scheduler, the start-up
\* or the operator command.
UpdateLeaderboard(fault) ==
    /\ Publishing(fault)
    /\ last' = Call("update_leaderboard", "-", fault, "returned")
    /\ UNCHANGED << monthly_stats, overall_stats, voice_sessions,
                    activity_sessions, voice_seq, activity_seq, clock, tz,
                    sum_monthly, sum_overall, last_name, voice_calls,
                    rental_vars, embed_vars, sched_vars, task_vars >>

\* Somebody deletes a leaderboard message from the channel.
DeleteMessage(m) ==
    /\ m \in channel_messages
    /\ channel_messages' = channel_messages \ {m}
    /\ last' = Call("delete_message", m.kind, "none", "returned")
    /\ UNCHANGED << monthly_stats, overall_stats, voice_sessions,
                    activity_sessions, voice_seq, activity_seq, clock, tz,
                    sum_monthly, sum_overall, last_name, voice_calls,
                    rental_vars, leaderboard_messages, message_seq,
                    last_saved, publish_log, embed_vars, sched_vars, task_vars >>

\* The guild of an event: the tracked one (config.GUILD_ID) or another.
Guilds == {"home", "other"}

\* The channel of a voice state: none, or one of two voice channels.
VoiceChannels == {"none", "c1", "c2"}

\* Mutant of VoiceRoute: every arrival in a channel opens a session.
VoiceRouteOnArrival(guild, is_bot, before, after) ==
    IF guild # "home" \/ is_bot THEN "ignore"
    ELSE IF after # "none" THEN "start"
    ELSE IF before # "none" THEN "end"
    ELSE "ignore"

\* on_voice_state_update: the call the handler makes for a change of voice
\* state.
VoiceRoute(guild, is_bot, before, after) ==
    IF guild # "home" THEN "ignore"
    ELSE IF is_bot THEN "ignore"
    ELSE IF before = "none" /\ after # "none" THEN "start"
    ELSE IF before # "none" /\ after = "none" THEN "end"
    ELSE "ignore"

\* on_voice_state_update(member, before, after).  The handler has no
\* suspension point: it runs as one step.
OnVoiceStateUpdate(user_id, guild, is_bot, before, after) ==
    /\ task_log' = [task_log EXCEPT
                      !.event = [user_id |-> user_id, guild |-> guild,
                                 bot |-> is_bot, before |-> before,
                                 after |-> after]]
    /\ \E route \in {VoiceRoute(guild, is_bot, before, after)} :
          CASE route = "start" -> StartingVoice(user_id, "none")
            [] route = "end" ->
                 EndingVoice(user_id, DisplayName(user_id), "none", "none")
            [] OTHER ->
                 /\ last' = Call("on_voice_state_update", user_id, "none",
                                 "ignored")
                 /\ UNCHANGED store_vars
    /\ UNCHANGED << rental_vars, board_vars, embed_vars, sched_vars, tasks >>

\* Mutant of UpsertReads: the counter is read when the event is delivered.
UpsertReadsAtDelivery(current, at_delivery) == at_delivery

\* The table the upserts of a handler read: the table as it is when the
\* statement executes, whatever it was when the event was delivered.
UpsertReads(current, at_delivery) == current

\* The statistics a handler increments by 1 for its user: on_message counts
\* the message, an 'AQ UP' call and a screenshot; on_reaction_add counts the
\* reaction for the author of the message.  Nothing is counted in another
\* guild, nor for a reaction by or to a bot.
Counted(t) ==
    IF t.guild # "home" \/ t.bot THEN {}
    ELSE IF t.op = "on_reaction_add" THEN {"reaction_count"}
    ELSE {"message_count"} \cup (IF t.aq THEN {"aq_calls"} ELSE {})
                           \cup (IF t.shot THEN {"screenshot_count"} ELSE {})

\* The increment_stat calls of a handler, in the order of valid_stats from
\* the k-th on: the statistics of a handler are distinct, so the order of
\* its calls does not show in the tables.
RECURSIVE IncrementEach(_, _, _, _, _)
IncrementEach(k, stats, t, counted, now) ==
    IF k > Len(valid_stats) THEN stats
    ELSE IncrementEach(k + 1,
            IF valid_stats[k] \in counted
            THEN increment_stat(stats.monthly, stats.overall, t.user_id,
                                DisplayName(t.user_id), valid_stats[k], 1,
                                now, "none").db
            ELSE stats,
            t, counted, now)

\* The sums of amounts after a handler's increments.
Summed(sums, user_id, counted) ==
    [sums EXCEPT ![user_id] =
        [s \in StatNames |-> @[s] + (IF s \in counted THEN 1 ELSE 0)]]

\* The platform delivers an event: on_message of a member's message or
\* on_reaction_add.  The handler is scheduled; it has not run yet.
Deliver(op, user_id, guild, is_bot, aq, shot) ==
    /\ Len(tasks) < MaxTasks
    /\ \E t \in {[op |-> op, pc |-> "start", user_id |-> user_id,
                  guild |-> guild, bot |-> is_bot, aq |-> aq, shot |-> shot,
                  seen |-> [monthly |-> monthly_stats,
                            overall |-> overall_stats]]} :
          /\ Counted(t) # {} =>
                task_log.delivered[user_id]["message_count"]
                   + task_log.delivered[user_id]["reaction_count"] < MaxCount
          /\ tasks' = Append(tasks, t)
          /\ task_log' = [task_log EXCEPT
                            !.delivered = Summed(@, user_id, Counted(t))]
    /\ last' = Call("deliver", user_id, "none", op)
    /\ UNCHANGED << store_vars, rental_vars, board_vars, embed_vars,
                    sched_vars >>

\* A scheduled handler runs to its first suspension point: on_message
\* increments and awaits bot.process_commands, or returns at once in another
\* guild; on_reaction_add increments and returns.
Run(i) ==
    /\ i \in 1..Len(tasks)
    /\ tasks[i].pc = "start"
    /\ \E t \in {tasks[i]} :
       \E r \in {IncrementEach(1,
                    [monthly |-> UpsertReads(monthly_stats, t.seen.monthly),
                     overall |-> UpsertReads(overall_stats, t.seen.overall)],
                    t, Counted(t), clock)} :
          /\ monthly_stats' = r.monthly
          /\ overall_stats' = r.overall
          /\ sum_monthly' = Summed(sum_monthly, t.user_id, Counted(t))
          /\ sum_overall' = Summed(sum_overall, t.user_id, Counted(t))
          /\ last_name' = IF Counted(t) = {} THEN last_name
                          ELSE [last_name EXCEPT
                                  ![t.user_id] = DisplayName(t.user_id)]
          /\ tasks' = IF t.op = "on_message" /\ t.guild = "home"
                      THEN [tasks EXCEPT ![i].pc = "process_commands"]
                      ELSE Ended(tasks, i)
          /\ last' = Call(t.op, t.user_id, "none",
                          IF t.op = "on_message" /\ t.guild = "home"
                          THEN "suspended" ELSE "returned")
    /\ UNCHANGED << voice_sessions, activity_sessions, voice_seq,
                    activity_seq, clock, tz, voice_calls, rental_vars,
                    board_vars, embed_vars, sched_vars, task_log >>

\* bot.process_commands returns and on_message ends.
Resume(i) ==
    /\ i \in 1..Len(tasks)
    /\ tasks[i].pc = "process_commands"
    /\ tasks' = Ended(tasks, i)
    /\ last' = Call(tasks[i].op, tasks[i].user_id, "none", "returned")
    /\ UNCHANGED << store_vars, rental_vars, board_vars, embed_vars,
                    sched_vars, task_log >>

\* The loop of parse_rental_embed from the k-th section on, up to the first
\* section whose count grew: there the handler suspends in
\* guild.fetch_members, with the counts it read.  The counts of the sections
\* it passes, which did not grow, are stored.
RECURSIVE RunToLookup(_, _, _)
RunToLookup(desc, k, counts) ==
    IF k > Len(desc)
    THEN [k |-> k, counts |-> counts, current |-> 0, previous |-> 0]
    ELSE LET username == desc[k].owner
             current_count == get_rental_item_count_by_username(desc, username)
             previous_count == Get(counts, username, 0)
         IN IF current_count - previous_count > 0
            THEN [k |-> k, counts |-> counts, current |-> current_count,
                  previous |-> previous_count]
            ELSE RunToLookup(desc, k + 1,
                    Put(counts, username,
                        StoredCount(previous_count, current_count)))

\* The handler of a rental embed after RunToLookup: ended, or suspended at
\* the k-th section.
Suspended(op, desc, r) ==
    IF r.k > Len(desc) THEN << >>
    ELSE << [op |-> op, pc |-> "fetch_members", desc |-> desc, k |-> r.k,
             current |-> r.current, previous |-> r.previous] >>

\* on_message or on_message_edit is given a message of the rental bot:
\* parse_rental_embed runs to its first suspension point.
BeginRentalEmbed(op, desc) ==
    /\ Len(tasks) < MaxTasks
    /\ \E r \in {RunToLookup(desc, 1, RENTAL_ITEM_COUNTS)} :
          /\ RENTAL_ITEM_COUNTS' = r.counts
          /\ tasks' = tasks \o Suspended(op, desc, r)
          /\ last' = Call(op, "-", "none",
                          IF r.k > Len(desc) THEN "returned" ELSE "suspended")
    /\ UNCHANGED << store_vars, rental_log, board_vars, embed_vars,
                    sched_vars, task_log >>

\* guild.fetch_members has yielded the members: the handler increments for
\* the member it found, stores the count it read before the look-up, and
\* goes on to its next suspension point.
ResumeRentalEmbed(i, lookup) ==
    /\ i \in 1..Len(tasks)
    /\ tasks[i].pc = "fetch_members"
    /\ \E t \in {tasks[i]} :
       \E m \in {FindMember(t.desc[t.k].owner)} :
       \E inc \in {IF lookup = "ok" /\ m # 0
                   THEN IncrementTimes(t.current - t.previous,
                           [monthly |-> monthly_stats,
                            overall |-> overall_stats],
                           GuildMembers[m], clock, "none",
                           [calls |-> 0, committed |-> 0, raised |-> FALSE])
                   ELSE [stats |-> [monthly |-> monthly_stats,
                                    overall |-> overall_stats],
                         calls |-> 0, committed |-> 0, raised |-> FALSE]} :
       \E stored \in {Get(RENTAL_ITEM_COUNTS, t.desc[t.k].owner, 0)} :
       \E r \in {RunToLookup(t.desc, t.k + 1,
                    Put(RENTAL_ITEM_COUNTS, t.desc[t.k].owner,
                        StoredCount(t.previous, t.current)))} :
          /\ \A u \in Users : WithinCap(inc.stats.overall, u, "rental_count")
          /\ task_log.gain[t.desc[t.k].owner] + t.current <= MaxCount + stored
          /\ monthly_stats' = inc.stats.monthly
          /\ overall_stats' = inc.stats.overall
          /\ IF m # 0
             THEN Record(GuildMembers[m].id, GuildMembers[m].display_name,
                         "rental_count", inc.committed, inc.committed > 0)
             ELSE UNCHANGED << sum_monthly, sum_overall, last_name >>
          /\ RENTAL_ITEM_COUNTS' = r.counts
          /\ tasks' = SubSeq(tasks, 1, i - 1) \o Suspended(t.op, t.desc, r)
                         \o SubSeq(tasks, i + 1, Len(tasks))
          /\ task_log' = [task_log EXCEPT
                            !.gain[t.desc[t.k].owner] =
                                @ + (IF t.current > stored
                                     THEN t.current - stored ELSE 0),
                            !.failed = @ \/ lookup # "ok"]
          /\ last' = Call(t.op, t.desc[t.k].owner, "none",
                          IF r.k > Len(t.desc) THEN "returned"
                          ELSE "suspended")
    /\ UNCHANGED << voice_sessions, activity_sessions, voice_seq,
                    activity_seq, clock, tz, voice_calls, rental_log,
                    board_vars, embed_vars, sched_vars >>

\* Mutant of PresenceCall: the end of the game is not tracked.
PresenceCallStartsOnly(old_activity, new_activity) ==
    IF ~old_activity /\ new_activity THEN "start" ELSE "none"

\* on_presence_update: the call the handler makes, given whether the member
\* had an activity named L2Reborn before and has one after.
PresenceCall(old_activity, new_activity) ==
    IF ~old_activity /\ new_activity THEN "start"
    ELSE IF old_activity /\ ~new_activity THEN "end"
    ELSE "none"

\* on_presence_update(before, after) up to its suspension point: in another
\* guild and for a bot it returns, otherwise it awaits guild.fetch_member.
\* The presence of a member alternates: the game stops only after it started.
BeginPresence(user_id, guild, is_bot, old_activity, new_activity) ==
    /\ Len(tasks) < MaxTasks
    /\ old_activity <=> task_log.presence[user_id] = "started"
    /\ (old_activity /\ ~new_activity) =>
          task_log.delivered[user_id]["lineage_time"] < MaxCount
    /\ \E tracked \in {guild = "home" /\ ~is_bot} :
          /\ tasks' = IF tracked
                      THEN Append(tasks, [op |-> "on_presence_update",
                                          pc |-> "fetch_member",
                                          user_id |-> user_id,
                                          old |-> old_activity,
                                          new |-> new_activity])
                      ELSE tasks
          /\ task_log' = IF tracked /\ old_activity # new_activity
                         THEN [task_log EXCEPT
                                 !.presence[user_id] =
                                     IF new_activity THEN "started"
                                     ELSE "stopped",
                                 !.delivered[user_id]["lineage_time"] =
                                     @ + (IF new_activity THEN 0 ELSE 1)]
                         ELSE task_log
          /\ last' = Call("on_presence_update", user_id, "none",
                          IF tracked THEN "suspended" ELSE "returned")
    /\ UNCHANGED << store_vars, rental_vars, board_vars, embed_vars,
                    sched_vars >>

\* guild.fetch_member has returned or raised: the handler returns when it
\* raised, and otherwise starts or ends the activity session.  The history
\* notes a handler that resumes before an earlier one of the same member.
ResumePresence(i, lookup) ==
    /\ i \in 1..Len(tasks)
    /\ tasks[i].pc = "fetch_member"
    /\ \E t \in {tasks[i]} :
       \E call \in {IF lookup = "ok" THEN PresenceCall(t.old, t.new)
                    ELSE "none"} :
          /\ CASE call = "start" -> StartingActivity(t.user_id, "none")
               [] call = "end" ->
                    EndingActivity(t.user_id, DisplayName(t.user_id), "none",
                                   "none")
               [] OTHER ->
                    /\ last' = Call("on_presence_update", t.user_id, "none",
                                    "returned")
                    /\ UNCHANGED store_vars
          /\ tasks' = Ended(tasks, i)
          /\ task_log' = [task_log EXCEPT
                            !.failed = @ \/ lookup # "ok",
                            !.overtaken[t.user_id] =
                                @ \/ \E j \in 1..(i - 1) :
                                        tasks[j].user_id = t.user_id]
    /\ UNCHANGED << rental_vars, board_vars, embed_vars, sched_vars >>

\* What the operator is told: the confirmation, the error text, or nothing
\* when ctx.followup.send raises.
Reply(defer, followup) ==
    IF followup = "raises" THEN "none"
    ELSE IF defer = "ok" THEN "updated" ELSE "error"

\* The operator command !leaderboard: ctx.defer(), update_leaderboard_task,
\* then the confirmation; the error text when one of them raises.
LeaderboardCommand(defer, fault, followup) ==
    /\ IF defer = "ok" THEN Publishing(fault) ELSE UNCHANGED board_vars
    /\ last' = Call("leaderboard", Reply(defer, followup),
                    IF defer = "ok" THEN fault ELSE "defer",
                    IF followup = "raises" THEN "raised" ELSE "returned")
    /\ UNCHANGED << store_vars, rental_vars, embed_vars, sched_vars, task_vars >>

\* A day passes.
NextDay ==
    /\ sched' = [sched EXCEPT !.date = Tomorrow(@), !.ticked = FALSE]
    /\ last' = Call("next_day", "-", "none", "returned")
    /\ UNCHANGED << store_vars, rental_vars, board_vars, embed_vars, task_vars,
                    sched_log >>

\* The trigger of a job fires: the interval of update_leaderboard, or the
\* daily cron of monthly_reset, once a day.  A run that the executor accepts
\* begins: monthly_reset_task returns at once unless the month ends.
Trigger(job) ==
    /\ job = "monthly_reset" => ~sched.ticked
    /\ \E can \in {CanStart(sched.running[job])} :
       \E stays \in {can /\ (job = "monthly_reset" => MonthEnd(sched.date))} :
          /\ sched' = [sched EXCEPT
                         !.ticked = IF job = "monthly_reset" THEN TRUE ELSE @,
                         !.running[job] = IF stays
                                          THEN Append(@, FirstStep(job))
                                          ELSE @]
          /\ sched_log' = IF stays /\ job = "monthly_reset" THEN NoSchedLog
                          ELSE sched_log
          /\ last' = Call("trigger", job, "none",
                          IF ~can THEN "suppressed"
                          ELSE IF stays THEN "started" ELSE "returned")
    /\ UNCHANGED << store_vars, rental_vars, board_vars, embed_vars, task_vars >>

\* An instance of update_leaderboard_task runs update_leaderboard and ends.
UpdateLeaderboardTask(i, fault) ==
    /\ i \in 1..Len(sched.running["update_leaderboard"])
    /\ Publishing(fault)
    /\ sched' = [sched EXCEPT !.running["update_leaderboard"] = Ended(@, i)]
    /\ last' = Call("update_leaderboard_task", "-", fault, "returned")
    /\ UNCHANGED << store_vars, rental_vars, embed_vars, task_vars, sched_log >>

\* An instance of monthly_reset_task announces the winners:
\* announce_monthly_winners(bot), then asyncio.sleep(2).
MonthlyAnnounce(i, fault) ==
    /\ i \in 1..Len(sched.running["monthly_reset"])
    /\ sched.running["monthly_reset"][i] = "announce"
    /\ sched' = [sched EXCEPT !.running["monthly_reset"] = Moved(@, i, "reset")]
    /\ sched_log' = [steps |-> Append(sched_log.steps, "announce"),
                     sent |-> fault = "none",
                     announced |-> IF fault = "none" THEN Winners(monthly_stats)
                                   ELSE NoWinners]
    /\ last' = Call("announce_monthly_winners", "-", fault, "returned")
    /\ UNCHANGED << store_vars, rental_vars, board_vars, embed_vars, task_vars >>

\* The instance resets: reset_monthly_stats(); a failure to connect is
\* raised and ends the run.
MonthlyReset(i, fail) ==
    /\ i \in 1..Len(sched.running["monthly_reset"])
    /\ sched.running["monthly_reset"][i] = "reset"
    /\ Resetting(fail, "monthly_reset_task")
    /\ sched' = [sched EXCEPT
                   !.running["monthly_reset"] =
                       IF fail = "connect" THEN Ended(@, i)
                       ELSE Moved(@, i, "publish")]
    /\ sched_log' = [sched_log EXCEPT !.steps = Append(@, "reset")]
    /\ UNCHANGED << rental_vars, board_vars, embed_vars, task_vars >>

\* The instance republishes the leaderboard and ends.
MonthlyPublish(i, fault) ==
    /\ i \in 1..Len(sched.running["monthly_reset"])
    /\ sched.running["monthly_reset"][i] = "publish"
    /\ Publishing(fault)
    /\ sched' = [sched EXCEPT !.running["monthly_reset"] = Ended(@, i)]
    /\ sched_log' = [sched_log EXCEPT !.steps = Append(@, "publish")]
    /\ last' = Call("update_leaderboard", "monthly_reset", fault, "returned")
    /\ UNCHANGED << store_vars, rental_vars, embed_vars, task_vars >>

\* The callers of update_leaderboard(bot): the start-up (on_ready), the
\* interval job, the operator command and the month-end job.
PublishSources ==
    {"on_ready", "update_leaderboard_task", "leaderboard", "monthly_reset_task"}

\* The source is a job of the scheduler.
IsJob(source) == source \in {"update_leaderboard_task", "monthly_reset_task"}

\* The publish runs in flight that were started by the source.
InFlight(source) == {i \in 1..Len(tasks) : tasks[i].op = source}

\* The errors of the platform calls of one kind in a run: none, or one other
\* than not-found.
StepFaults == {"none", "http"}

\* A publish run up to its first platform call: the channel is found, the
\* rows are fetched, the embeds are built and both stored references are
\* read; the run is suspended at the call for the monthly message.  The
\* scheduler starts a job only below max_instances.
BeginPublish(source) ==
    /\ source \in PublishSources
    /\ Len(tasks) < MaxTasks
    /\ IsJob(source) => Cardinality(InFlight(source)) < max_instances
    /\ tasks' = Append(tasks,
          [op |-> source, pc |-> "monthly",
           monthly_msg_id |->
               get_leaderboard_message(leaderboard_messages, "monthly"),
           overall_msg_id |->
               get_leaderboard_message(leaderboard_messages, "overall")])
    /\ last' = Call(source, "-", "none", "suspended")
    /\ UNCHANGED << store_vars, rental_vars, board_vars, embed_vars,
                    sched_vars, task_log >>

\* The run's platform calls for one kind return: with the reference read at
\* the start the message is fetched and edited, or sent and saved when there
\* was no reference or the fetch found nothing.  After the monthly kind the
\* run is suspended at the call for the overall kind; after the overall kind,
\* or at an error, it ends.
ResumePublish(i, fault) ==
    /\ i \in 1..Len(tasks)
    /\ tasks[i].op \in PublishSources
    /\ fault \in StepFaults
    /\ \E kind \in {tasks[i].pc} :
       \E msg_id \in {IF kind = "monthly" THEN tasks[i].monthly_msg_id
                                          ELSE tasks[i].overall_msg_id} :
       \E r \in {PublishKind(
                    [table |-> leaderboard_messages,
                     channel |-> channel_messages,
                     seq |-> message_seq, saved |-> last_saved],
                    kind, msg_id, fault = "http")} :
          /\ r.board.seq <= MaxMessages
          /\ leaderboard_messages' = r.board.table
          /\ channel_messages' = r.board.channel
          /\ message_seq' = r.board.seq
          /\ last_saved' = r.board.saved
          /\ publish_log' = [publish_log EXCEPT ![kind] = r.did]
          /\ tasks' = IF kind = "monthly" /\ r.did # "raised"
                         THEN Moved(tasks, i, [tasks[i] EXCEPT !.pc = "overall"])
                         ELSE Ended(tasks, i)
          /\ last' = Call("update_leaderboard", kind, fault, r.did)
    /\ UNCHANGED << store_vars, rental_vars, embed_vars, sched_vars,
                    task_log >>

\* The counter store of the members at one clock reading, under direct
\* increments and monthly resets.
Next ==
    \/ \E u \in Users, n \in Names, s \in StatInputs, a \in Amounts,
          f \in IncrementFails : IncrementStat(u, n, s, a, f)
    \/ \E f \in ResetFails : ResetMonthlyStats(f)

Spec == InitUTC /\ [][Next]_vars

\* The counter store of one member over time.
NextClock ==
    \/ Tick
    \/ \E n \in Names, s \in StatInputs, a \in Amounts, f \in IncrementFails :
          IncrementStat("u1", n, s, a, f)
    \/ \E f \in ResetFails : ResetMonthlyStats(f)

SpecClock == InitUTC /\ [][NextClock]_vars

\* The session tracker of both kinds at one clock reading, with monthly
\* resets; the store failures of the starts are inputs of SpecJoins and
\* SpecActivity.
NextTracker ==
    \/ \E f \in ResetFails : ResetMonthlyStats(f)
    \/ \E u \in Users : StartVoiceSession(u, "none")
    \/ \E u \in Users : StartActivitySession(u, "none")
    \/ \E u \in Users, f \in EndFails, g \in IncrementFails :
          EndVoiceSession(u, "a", f, g)
    \/ \E u \in Users, f \in EndFails, g \in IncrementFails :
          EndActivitySession(u, "a", f, g)

SpecTracker == InitUTC /\ [][NextTracker]_vars

\* The activity sessions of the members at one clock reading, with monthly
\* resets.
NextActivity ==
    \/ \E f \in ResetFails : ResetMonthlyStats(f)
    \/ \E u \in Users, f \in StartActivityFails : StartActivitySession(u, f)
    \/ \E u \in Users, f \in EndFails, g \in IncrementFails :
          EndActivitySession(u, "a", f, g)

SpecActivity == InitUTC /\ [][NextActivity]_vars

\* The voice sessions of one member over time, on a host in any time zone.
NextVoice ==
    \/ Tick
    \/ \E f \in ResetFails : ResetMonthlyStats(f)
    \/ \E f \in StartVoiceFails : StartVoiceSession("u1", f)
    \/ \E n \in Names, f \in EndFails, g \in IncrementFails :
          EndVoiceSession("u1", n, f, g)

SpecVoice == Init /\ [][NextVoice]_vars

\* The voice sessions of one member over time, on a host on UTC.
NextJoins ==
    \/ Tick
    \/ \E f \in ResetFails : ResetMonthlyStats(f)
    \/ \E f \in StartVoiceFails : StartVoiceSession("u1", f)
    \/ \E f \in EndFails, g \in IncrementFails :
          EndVoiceSession("u1", "a", f, g)

SpecJoins == InitJoins /\ [][NextJoins]_vars

\* The rental tracker under a sequence of rental embeds.
NextRental ==
    \E desc \in Descriptions, lookup \in Lookups, f \in EmbedFails :
       ParseRentalEmbed(desc, lookup, f)

SpecRental == InitUTC /\ [][NextRental]_vars

\* The attendance extractor: the announcement that was posted is given to
\* on_message, once or again.
NextAttendance ==
    \E missing \in SUBSET Users, f \in EmbedFails :
       OnBotMessage(missing, "ok", f)

SpecAttendance == InitAttendance /\ [][NextAttendance]_vars

\* The dispatcher: the message that a bot posted is given to on_message,
\* once or again.
NextDispatch ==
    \E missing \in SUBSET Users, lookup \in Lookups, f \in EmbedFails :
       OnBotMessage(missing, lookup, f)

SpecDispatch == InitDispatch /\ [][NextDispatch]_vars

\* The scheduler: days pass, the triggers of both jobs fire and their
\* instances run.
NextJobs ==
    \/ NextDay
    \/ \E job \in JobIds : Trigger(job)
    \/ \E i \in 1..(max_instances + 1), fault \in PublishFaults :
          UpdateLeaderboardTask(i, fault)
    \/ \E i \in 1..(max_instances + 1), fault \in AnnounceFaults :
          MonthlyAnnounce(i, fault)
    \/ \E i \in 1..(max_instances + 1), f \in ResetFails : MonthlyReset(i, f)
    \/ \E i \in 1..(max_instances + 1), fault \in PublishFaults :
          MonthlyPublish(i, fault)

SpecJobs == InitUTC /\ [][NextJobs]_vars

\* The month end: days pass, one member writes messages one by one, another
\* writes several at once, the daily trigger fires and its instance runs.
NextMonthEnd ==
    \/ NextDay
    \/ IncrementStat("u1", "a", "message_count", 1, "none")
    \/ /\ StatValue(overall_stats, "u2", "message_count") = 0
       /\ IncrementStat("u2", "b", "message_count", MaxAmount, "none")
    \/ Trigger("monthly_reset")
    \/ \E fault \in AnnounceFaults : MonthlyAnnounce(1, fault)
    \/ \E f \in ResetFails : MonthlyReset(1, f)
    \/ \E fault \in {"none", "no_channel"} : MonthlyPublish(1, fault)

SpecMonthEnd == InitUTC /\ [][NextMonthEnd]_vars

\* The leaderboard publisher under publish runs, one after another, and
\* deletions of its messages.
NextBoard ==
    \/ \E fault \in PublishFaults : UpdateLeaderboard(fault)
    \/ \E m \in channel_messages : DeleteMessage(m)

SpecBoard == InitUTC /\ [][NextBoard]_vars

\* The voice handler: time passes and the voice state of an account changes,
\* a member's or a bot's, in the tracked guild or in another.
NextVoiceState ==
    \/ Tick
    \/ \E g \in Guilds, b \in BOOLEAN, before \in VoiceChannels,
          after \in VoiceChannels :
          OnVoiceStateUpdate("u1", g, b, before, after)

SpecVoiceState == InitUTC /\ [][NextVoiceState]_vars

\* The handlers of messages and reactions: the messages of a member and the
\* reactions to them are delivered, MaxCount counted ones at most, and the
\* handlers run and resume in any order.
NextHandlers ==
    \/ \E aq \in BOOLEAN : Deliver("on_message", "u1", "home", FALSE, aq, FALSE)
    \/ Deliver("on_message", "u1", "home", FALSE, FALSE, TRUE)
    \/ Deliver("on_message", "u1", "other", FALSE, FALSE, FALSE)
    \/ \E b \in BOOLEAN : Deliver("on_reaction_add", "u1", "home", b, FALSE, FALSE)
    \/ \E i \in 1..MaxTasks : Run(i)
    \/ \E i \in 1..MaxTasks : Resume(i)

SpecHandlers == InitUTC /\ [][NextHandlers]_vars

\* The rental message as posted and as edited: the section of the member
\* "a" with its items, alone or after a section of "x".
Editions ==
    {<< [owner |-> "a", items |-> n] >> : n \in 0..MaxItems}
       \cup {<< [owner |-> "x", items |-> 1], [owner |-> "a", items |-> 1] >>}

\* The rental tracker under posts and edits of the rental message whose
\* handlers interleave at the member look-up.
NextEdits ==
    \/ \E op \in {"on_message", "on_message_edit"}, desc \in Editions :
          BeginRentalEmbed(op, desc)
    \/ \E i \in 1..MaxTasks, lookup \in Lookups : ResumeRentalEmbed(i, lookup)

SpecEdits == InitUTC /\ [][NextEdits]_vars

\* The presence handler: the presence of an account changes, a member's or
\* a bot's, in the tracked guild or in another, and the handlers resume in
\* any order.
NextPresence ==
    \/ \E old \in BOOLEAN, new \in BOOLEAN :
          BeginPresence("u1", "home", FALSE, old, new)
    \/ \E g \in Guilds, b \in BOOLEAN : BeginPresence("u1", g, b, FALSE, TRUE)
    \/ \E i \in 1..MaxTasks, lookup \in Lookups : ResumePresence(i, lookup)

SpecPresence == InitUTC /\ [][NextPresence]_vars

\* The operator command, and leaderboard messages deleted by hand.
NextCommand ==
    \/ \E defer \in {"ok", "raises"}, fault \in PublishFaults,
          followup \in {"ok", "raises"} :
          LeaderboardCommand(defer, fault, followup)
    \/ \E m \in channel_messages : DeleteMessage(m)

SpecCommand == InitUTC /\ [][NextCommand]_vars

\* The leaderboard publisher under publish runs that may overlap, and
\* deletions of its messages.
NextOverlap ==
    \/ \E source \in PublishSources : BeginPublish(source)
    \/ \E i \in 1..MaxTasks, fault \in StepFaults : ResumePublish(i, fault)
    \/ \E m \in channel_messages : DeleteMessage(m)

SpecOverlap == InitUTC /\ [][NextOverlap]_vars

----------------------------------------------------------------------------
(* The counter store: increment_stat *)

\* The last step was a call of op.
Called(op) == last'.op = op

\* C1: under direct increments, each stored counter of a user equals the sum
\* of the amounts of the committed increment_stat calls for that user and
\* statistic, in monthly_stats (since the last reset) and in overall_stats
\* alike, and the username stored in both tables is the one passed by the
\* last committed call.
C1_SumAndLastName ==
    \A u \in Users :
        /\ \A st \in StatNames :
              /\ StatValue(monthly_stats, u, st) = sum_monthly[u][st]
              /\ StatValue(overall_stats, u, st) = sum_overall[u][st]
        /\ RowIndex(monthly_stats, u) # 0 =>
              monthly_stats[RowIndex(monthly_stats, u)].username = last_name[u]
        /\ RowIndex(overall_stats, u) # 0 =>
              overall_stats[RowIndex(overall_stats, u)].username = last_name[u]

\* A counter that took more than one call to reach, stored in both tables.
C1_Witness ==
    /\ last.op = "increment_stat" /\ last.outcome = "committed"
    /\ \E u \in Users :
          /\ StatValue(overall_stats, u, "message_count") > MaxAmount
          /\ StatValue(monthly_stats, u, "message_count") > MaxAmount

\* The two tables are left as they were.
StatsUnchanged ==
    /\ monthly_stats' = monthly_stats
    /\ overall_stats' = overall_stats

\* C2: an increment_stat call whose stat_type is outside the allow-list
\* changes no row of either table: no record is created, and no counter,
\* username or updated_at changes.
C2_InvalidStatNoOp ==
    [][Called("increment_stat") /\ last'.arg \notin StatNames
          => StatsUnchanged]_vars

\* An increment with an invalid stat_type returned at a time later than the
\* one at which the records in the store were written.
C2_Witness ==
    /\ last.op = "increment_stat" /\ last.outcome = "invalid"
    /\ overall_stats # << >> /\ overall_stats[1].updated_at < clock
    /\ monthly_stats # << >> /\ monthly_stats[1].updated_at < clock

\* Both tables received the same amount for one counter of one user.
BothReceived ==
    \E u \in Users, a \in Amounts :
        /\ StatValue(monthly_stats', u, last'.arg)
              = StatValue(monthly_stats, u, last'.arg) + a
        /\ StatValue(overall_stats', u, last'.arg)
              = StatValue(overall_stats, u, last'.arg) + a

\* C3: increment_stat is all-or-nothing across the two tables: after the call
\* either both tables have received the amount or neither has changed, and a
\* store failure at any point of the call is not propagated to the caller.
C3_AtomicNeverRaises ==
    [][Called("increment_stat") /\ last'.arg \in StatNames =>
          /\ BothReceived \/ StatsUnchanged
          /\ last'.outcome # "raised"]_vars

\* The part of C3 that the code keeps: a call without a store failure adds
\* the amount to both tables, a call with a store failure at any point
\* changes neither; the failure is raised exactly when it is the failure to
\* open the connection.
AllOrNothing ==
    [][Called("increment_stat") /\ last'.arg \in StatNames =>
          /\ last'.fail = "none" => BothReceived
          /\ last'.fail # "none" => StatsUnchanged
          /\ (last'.outcome = "raised") = (last'.fail = "connect")]_vars

----------------------------------------------------------------------------
(* The counter store: monotonicity, reset_monthly_stats, get_top_stats *)

\* No counter of the table is lowered by the step.
NotLowered(before, after) ==
    \A u \in Users, st \in StatNames :
        StatValue(after, u, st) >= StatValue(before, u, st)

\* C4: no step other than a monthly reset lowers a counter of monthly_stats,
\* and no step at all lowers a counter of overall_stats.
C4_CountersNeverDecrease ==
    [][/\ ~Called("reset_monthly_stats") =>
             NotLowered(monthly_stats, monthly_stats')
       /\ NotLowered(overall_stats, overall_stats')]_vars

\* The limits get_top_stats is asked for, and the queries of it that fail:
\* none, or the one of voice_time, of message_count or of lineage_time.
Limits == 0..MaxLimit
FailPoints == {0, 1, 2, 3}

\* C5: after a reset_monthly_stats that committed, get_top_stats on
\* monthly_stats returns the empty list for every category and every limit,
\* get_top_stats on overall_stats returns what it returned before the reset,
\* and overall_stats is the table it was.
C5_ResetEmptiesMonthlyOnly ==
    [][Called("reset_monthly_stats") /\ last'.fail = "none" =>
          /\ \A n \in Limits :
                /\ \A top \in {get_top_stats(monthly_stats', n, 0)} :
                      \A st \in StatNames : top[st] = << >>
                /\ get_top_stats(overall_stats', n, 0)
                      = get_top_stats(overall_stats, n, 0)
          /\ overall_stats' = overall_stats]_vars

\* A reset committed on a store whose overall_stats ranks two users.
C5_Witness ==
    /\ last.op = "reset_monthly_stats" /\ last.outcome = "committed"
    /\ monthly_stats = << >>
    /\ Len(get_top_stats(overall_stats, MaxLimit, 0)["message_count"]) = 2

\* The rows of a session table that are closed.
Closed(sessions) == SelectSeq(sessions, LAMBDA r : r.is_active = 0)

\* C6: reset_monthly_stats is atomic over its three deletions: a call that
\* commits leaves monthly_stats empty and both session tables with exactly
\* their closed rows, so that no user has an active session of either kind;
\* a call that fails at any point leaves all three tables as they were.
C6_ResetAtomic ==
    [][Called("reset_monthly_stats") =>
          /\ last'.fail = "none" =>
                /\ monthly_stats' = << >>
                /\ voice_sessions' = Closed(voice_sessions)
                /\ activity_sessions' = Closed(activity_sessions)
                /\ \A u \in Users : /\ ~HasActive(voice_sessions', u)
                                    /\ ~HasActive(activity_sessions', u)
          /\ last'.fail # "none" =>
                /\ monthly_stats' = monthly_stats
                /\ voice_sessions' = voice_sessions
                /\ activity_sessions' = activity_sessions]_vars

\* A reset committed, removed active rows and kept a closed one.
C6_Witness ==
    /\ last.op = "reset_monthly_stats" /\ last.outcome = "committed"
    /\ voice_sessions # << >>
    /\ activity_seq > Len(activity_sessions)
    /\ monthly_stats = << >>
    /\ overall_stats # << >>

\* The list has at most n entries, none of value 0 or less.
Bounded(top, n) ==
    /\ Len(top) <= n
    /\ \A i \in 1..Len(top) : top[i].value > 0

\* C7 as stated: for every table, limit n and category, get_top_stats
\* returns at most n entries, none of value 0, strictly descending by value.
C7_StrictlyDescending ==
    \A t \in {monthly_stats, overall_stats}, n \in Limits, k \in FailPoints :
        \A stats \in {get_top_stats(t, n, k)}, st \in StatNames :
            LET top == stats[st] IN
            /\ Bounded(top, n)
            /\ \A i, j \in 1..Len(top) : i < j => top[i].value > top[j].value

\* C7, amended: for every table, limit n and category, get_top_stats returns
\* at most n entries, none of value 0, in non-increasing order of value:
\* entries of equal value are both returned, in the order of their rows.
C7_NonIncreasing ==
    \A t \in {monthly_stats, overall_stats}, n \in Limits, k \in FailPoints :
        \A stats \in {get_top_stats(t, n, k)}, st \in StatNames :
            LET top == stats[st] IN
            /\ Bounded(top, n)
            /\ \A i, j \in 1..Len(top) : i < j =>
                  \/ top[i].value > top[j].value
                  \/ /\ top[i].value = top[j].value
                     /\ RowIndex(t, top[i].user_id)
                           < RowIndex(t, top[j].user_id)

\* Two users are ranked in the reverse of the order of their rows, and a
\* third list is cut by its limit.
C7_Witness ==
    /\ Len(overall_stats) = 2
    /\ overall_stats[1].stats["message_count"] > 0
    /\ overall_stats[1].stats["message_count"]
          < overall_stats[2].stats["message_count"]
    /\ Len(get_top_stats(overall_stats, 2, 0)["message_count"]) = 2
    /\ Len(get_top_stats(overall_stats, 1, 0)["message_count"]) = 1

----------------------------------------------------------------------------
(* The session tracker *)

\* The active rows of a user.
ActiveRows(sessions, user_id) ==
    {i \in 1..Len(sessions) :
        sessions[i].user_id = user_id /\ sessions[i].is_active = 1}

\* C8: in every reachable state each user has at most one active activity
\* session, and a start_activity_session for a user who has one creates no
\* row and changes nothing, under any sequence of start, end and reset.
C8_OneActiveActivity ==
    /\ [](\A u \in Users : Cardinality(ActiveRows(activity_sessions, u)) <= 1)
    /\ [][Called("start_activity_session")
             /\ HasActive(activity_sessions, last'.arg) =>
                /\ activity_sessions' = activity_sessions
                /\ activity_seq' = activity_seq
                /\ voice_sessions' = voice_sessions
                /\ StatsUnchanged]_vars

\* A start for a user with an active session returned, after an earlier
\* session of that user was closed.
C8_Witness ==
    /\ last.op = "start_activity_session" /\ last.outcome = "already_active"
    /\ Cardinality(ActiveRows(activity_sessions, last.arg)) = 1
    /\ \E i \in 1..Len(activity_sessions) :
          /\ activity_sessions[i].user_id = last.arg
          /\ activity_sessions[i].is_active = 0

\* The step was an end of a session of a user who has no active session of
\* that kind.
EndWithoutSession ==
    \/ /\ Called("end_voice_session")
       /\ ~HasActive(voice_sessions, last'.arg)
    \/ /\ Called("end_activity_session")
       /\ ~HasActive(activity_sessions, last'.arg)

Floor0(n) == IF n < 0 THEN 0 ELSE n

\* C10: an end_voice_session that finds an active session adds
\* max(0, now - start) to voice_time, or nothing when the increment fails:
\* never a negative amount.
C10_DurationFloorsAtZero ==
    [][Called("end_voice_session") /\ HasActive(voice_sessions, last'.arg) =>
          LET u == last'.arg
              i == MostRecentActive(JoinTimes(voice_sessions), voice_sessions, u)
              before == StatValue(overall_stats, u, "voice_time")
              after == StatValue(overall_stats', u, "voice_time")
          IN after \in {before,
                        before + Floor0(LocalNow - voice_sessions[i].join_time)}
      ]_vars

----------------------------------------------------------------------------
(* The session tracker: what an end adds *)

\* The step closed the row i of the table and nothing else in it.
Closes(sessions, after, i) ==
    /\ sessions[i].is_active = 1
    /\ after = MarkInactive(sessions, sessions[i].id)

\* The step added the amount to the statistic of the user in the table, and
\* changed no other statistic of the user and no row of another user.
AddsOnly(before, after, user_id, stat, amount) ==
    /\ StatValue(after, user_id, stat) = StatValue(before, user_id, stat) + amount
    /\ \A st \in StatNames \ {stat} :
          StatValue(after, user_id, st) = StatValue(before, user_id, st)
    /\ \A u \in Users \ {user_id} :
          /\ RowIndex(after, u) = RowIndex(before, u)
          /\ RowIndex(before, u) # 0 =>
                after[RowIndex(after, u)] = before[RowIndex(before, u)]

\* C11: an end_voice_session of a user with an active voice session, with no
\* store failure, adds the time that passed since the session started to
\* voice_time in monthly_stats and in overall_stats, changes no other
\* statistic of the user and no record of another user, and marks the
\* session inactive; an end_activity_session does the same with lineage_time.
C11_EndAddsDuration ==
    [][/\ Called("end_voice_session") /\ last'.fail = "none"
          /\ HasActive(voice_sessions, last'.arg) =>
             LET u == last'.arg
                 i == MostRecentActive(JoinTimes(voice_sessions),
                                       voice_sessions, u)
                 d == clock - voice_sessions[i].join_time
             IN /\ AddsOnly(monthly_stats, monthly_stats', u, "voice_time", d)
                /\ AddsOnly(overall_stats, overall_stats', u, "voice_time", d)
                /\ Closes(voice_sessions, voice_sessions', i)
       /\ Called("end_activity_session") /\ last'.fail = "none"
          /\ HasActive(activity_sessions, last'.arg) =>
             LET u == last'.arg
                 i == MostRecentActive(StartTimes(activity_sessions),
                                       activity_sessions, u)
                 d == clock - activity_sessions[i].start_time
             IN /\ AddsOnly(monthly_stats, monthly_stats', u, "lineage_time", d)
                /\ AddsOnly(overall_stats, overall_stats', u, "lineage_time", d)
                /\ Closes(activity_sessions, activity_sessions', i)]_vars

\* The row i is an active row of the user with the latest join_time.
LatestActive(sessions, user_id, i) ==
    /\ i \in ActiveRows(sessions, user_id)
    /\ \A j \in ActiveRows(sessions, user_id) :
          sessions[j].join_time <= sessions[i].join_time

\* C12: a start_voice_session without a store failure appends one active row,
\* whatever rows the user has; an end_voice_session that commits closes
\* exactly one row, an active row of the user with the latest join_time; and
\* as long as every end since the last reset followed a start it matches, the
\* user has as many active rows as starts minus ends.
C12_VoiceNoDedup ==
    /\ [][Called("start_voice_session") /\ last'.fail = "none" =>
             voice_sessions' = Append(voice_sessions,
                                  [id |-> voice_seq + 1, user_id |-> last'.arg,
                                   join_time |-> clock, is_active |-> 1])]_vars
    /\ [][Called("end_voice_session") /\ last'.outcome = "committed" =>
             \E i \in 1..Len(voice_sessions) :
                /\ LatestActive(voice_sessions, last'.arg, i)
                /\ voice_sessions' = MarkInactive(voice_sessions,
                                                  voice_sessions[i].id)]_vars
    /\ [](\A u \in Users :
             ~voice_calls[u].unmatched =>
                Cardinality(ActiveRows(voice_sessions, u))
                   = voice_calls[u].starts - voice_calls[u].ends)

\* After two starts without an end between them, an end closed the later of
\* the two active rows and left the earlier one active.
C12_Witness ==
    /\ last.op = "end_voice_session" /\ last.outcome = "committed"
    /\ voice_calls["u1"] = [starts |-> 2, ends |-> 1, unmatched |-> FALSE]
    /\ Len(voice_sessions) = 2
    /\ voice_sessions[1].is_active = 1 /\ voice_sessions[2].is_active = 0
    /\ voice_sessions[1].join_time < voice_sessions[2].join_time

----------------------------------------------------------------------------
(* The rental tracker *)

\* The observations of the owner of the i-th observation that precede it in
\* the run, and those that follow it.
Before(log, i) == {j \in 1..(i - 1) : log[j].owner = log[i].owner}
After(log, i) == {j \in (i + 1)..Len(log) : log[j].owner = log[i].owner}

\* The count of the observation of the same owner that immediately precedes
\* the i-th of the run: an earlier one of the run, or else the one stored
\* when the run began, 0 for an unseen owner.
Preceding(log, i, counts) ==
    IF Before(log, i) = {} THEN Get(counts, log[i].owner, 0)
    ELSE log[CHOOSE j \in Before(log, i) : \A k \in Before(log, i) : k <= j]
            .current

\* C13: at each observation of a rental embed whose owner is a member, when
\* neither the member look-up nor the store raises, the number of
\* increment_stat(.., 'rental_count', 1) calls is max(0, current - previous),
\* previous being the count of the immediately preceding observation of that
\* owner, 0 for an unseen owner; without a store failure each call adds 1 to
\* rental_count of the member in both tables.
C13_RentalDelta ==
    [][Called("parse_rental_embed") =>
          /\ \A i \in 1..Len(rental_log') :
                LET r == rental_log'[i] IN
                r.member # "-" /\ ~r.failed =>
                   /\ r.calls = Floor0(r.current
                                  - Preceding(rental_log', i, RENTAL_ITEM_COUNTS))
                   /\ last'.fail = "none" => r.committed = r.calls
          /\ \A u \in Users :
                /\ StatValue(overall_stats', u, "rental_count")
                      = StatValue(overall_stats, u, "rental_count")
                           + Committed(rental_log', u)
                /\ StatValue(monthly_stats', u, "rental_count")
                      = StatValue(monthly_stats, u, "rental_count")
                           + Committed(rental_log', u)]_vars

\* After an increase, a decrease and an increase again, the last increase
\* was counted from the decreased count.
C13_Witness ==
    /\ last.op = "parse_rental_embed" /\ last.fail = "none"
    /\ Len(rental_log) = 1
    /\ rental_log[1] = [owner |-> "a", previous |-> 1, current |-> 2,
                        calls |-> 1, committed |-> 1, member |-> "u1",
                        failed |-> FALSE]
    /\ StatValue(overall_stats, "u1", "rental_count") = 3
    /\ RENTAL_ITEM_COUNTS["a"] = 2

\* C14: after every observation of a rental embed the count stored for the
\* owner is the observed count, in every branch: the next observation of the
\* owner starts from it, and after the run RENTAL_ITEM_COUNTS holds the last
\* observed count of each observed owner and what it held of the others; an
\* observation that is not an increase makes no increment_stat call, and no
\* rental_count of any user is lowered.
C14_StoredCountFollows ==
    [][Called("parse_rental_embed") =>
          /\ \A i \in 1..Len(rental_log') :
                LET r == rental_log'[i] IN
                /\ r.previous = Preceding(rental_log', i, RENTAL_ITEM_COUNTS)
                /\ After(rental_log', i) = {} =>
                      /\ r.owner \in DOMAIN RENTAL_ITEM_COUNTS'
                      /\ RENTAL_ITEM_COUNTS'[r.owner] = r.current
                /\ r.current <= r.previous => r.calls = 0
          /\ \A o \in Owners :
                (\A i \in 1..Len(rental_log') : rental_log'[i].owner # o) =>
                   /\ (o \in DOMAIN RENTAL_ITEM_COUNTS')
                         = (o \in DOMAIN RENTAL_ITEM_COUNTS)
                   /\ Get(RENTAL_ITEM_COUNTS', o, 0)
                         = Get(RENTAL_ITEM_COUNTS, o, 0)
          /\ \A u \in Users :
                /\ StatValue(monthly_stats', u, "rental_count")
                      >= StatValue(monthly_stats, u, "rental_count")
                /\ StatValue(overall_stats', u, "rental_count")
                      >= StatValue(overall_stats, u, "rental_count")]_vars

\* One embed held a decrease of a member who has rentals counted and an
\* increase of an owner who is no member; both counts were stored.
C14_Witness ==
    /\ last.op = "parse_rental_embed"
    /\ Len(rental_log) = 2
    /\ rental_log[1].owner = "a" /\ rental_log[1].current < rental_log[1].previous
    /\ rental_log[2].owner = "x" /\ rental_log[2].current > rental_log[2].previous
    /\ rental_log[2].member = "-" /\ rental_log[2].calls = 0
    /\ RENTAL_ITEM_COUNTS["a"] = rental_log[1].current
    /\ RENTAL_ITEM_COUNTS["x"] = rental_log[2].current
    /\ StatValue(overall_stats, "u1", "rental_count") > RENTAL_ITEM_COUNTS["a"]

\* The messages of one kind that are in the channel.
Live(channel, kind) == {m \in channel : m.kind = kind}

\* C15: a publish run in which no platform call fails follows edit-or-recreate
\* for each kind: with no stored reference it sends one new message and the
\* stored reference becomes its id; with a stored reference whose message
\* exists it edits that message and sends nothing; with a stored reference
\* whose message is not found it sends one new message and the stored
\* reference becomes the new id.
C15_EditOrRecreate ==
    [][Called("update_leaderboard") /\ last'.fail = "none" =>
          \A k \in Kinds :
             LET ref == get_leaderboard_message(leaderboard_messages, k)
                 sent == Live(channel_messages', k) \ channel_messages
                 stored == get_leaderboard_message(leaderboard_messages', k)
             IN
             /\ ref = 0 =>
                   /\ Cardinality(sent) = 1
                   /\ \A m \in sent : stored = m.id
             /\ ref # 0 /\ Exists(channel_messages, ref) =>
                   /\ sent = {}
                   /\ publish_log'[k] = "edited"
                   /\ stored = ref
             /\ ref # 0 /\ ~Exists(channel_messages, ref) =>
                   /\ Cardinality(sent) = 1
                   /\ \A m \in sent : stored = m.id]_vars

\* C16: the message reference is a get/put value per kind: get returns the id
\* of the most recent set for that kind, none (0) when nothing was set, and a
\* set for one kind leaves what get returns for the other kind unchanged.
C16_LastWriteWins ==
    /\ [](\A k \in Kinds :
            get_leaderboard_message(leaderboard_messages, k) = last_saved[k])
    /\ [][\A k \in Kinds :
            last_saved'[k] = last_saved[k] =>
               get_leaderboard_message(leaderboard_messages', k)
                  = get_leaderboard_message(leaderboard_messages, k)]_vars

\* C17: under publish runs one after another and deletions of messages, the
\* channel never holds more than one leaderboard message per kind, and a
\* publish run without a fault edits the message that was sent last for a kind
\* when that message is still in the channel, and sends none.
C17_OneLiveMessage ==
    /\ [](\A k \in Kinds : Cardinality(Live(channel_messages, k)) <= 1)
    /\ [][Called("update_leaderboard") /\ last'.fail = "none" =>
            \A k \in Kinds :
               last_saved[k] # 0 /\ Exists(channel_messages, last_saved[k]) =>
                  /\ publish_log'[k] = "edited"
                  /\ Live(channel_messages', k) = Live(channel_messages, k)]_vars

\* The i-th part of the description lies between the first accepted marker
\* and the next declined marker, or the end of the text.
InSpan(desc, i) ==
    \E a \in 1..(i - 1) :
       /\ desc[a].t = "accepted"
       /\ \A b \in 1..(a - 1) : desc[b].t # "accepted"
       /\ \A j \in (a + 1)..(i - 1) : desc[j].t # "declined"

\* The number of mentions of the user inside the accepted span.
Inside(desc, user_id) ==
    Cardinality({i \in 1..Len(desc) :
                    desc[i] = Mention(user_id) /\ InSpan(desc, i)})

\* What a step adds to a statistic of a user in a table.
Added(before, after, user_id, stat) ==
    StatValue(after, user_id, stat) - StatValue(before, user_id, stat)

\* C18: when an attendance embed is processed, a user with no mention inside
\* the accepted span (mentioned before the accepted marker, after the declined
\* marker, or not at all) gets no apollo_events in either table, whatever
\* fails; and when every member look-up and the store succeed, a user gets one
\* apollo_events in both tables for each of its mentions inside the span.
C18_AcceptedSpanOnly ==
    [][Called("on_message") /\ dispatch'.branch = "apollo" =>
          \A u \in Users :
             LET inside == Inside(bot_message.description, u)
                 monthly == Added(monthly_stats, monthly_stats', u,
                                  "apollo_events")
                 overall == Added(overall_stats, overall_stats', u,
                                  "apollo_events")
             IN
             /\ inside = 0 => monthly = 0 /\ overall = 0
             /\ dispatch'.missing = {} /\ last'.fail = "none" =>
                   monthly = inside /\ overall = inside]_vars

\* The announcement "Accepted: u1, Declined: u2" was processed: u1 has one
\* attendance and u2 has none.
C18_Witness ==
    /\ last.op = "on_message" /\ last.fail = "none"
    /\ dispatch.branch = "apollo" /\ dispatch.missing = {}
    /\ bot_message.description
          = << Accepted, Mention("u1"), Declined, Mention("u2") >>
    /\ StatValue(overall_stats, "u1", "apollo_events") = 1
    /\ StatValue(overall_stats, "u2", "apollo_events") = 0
    /\ StatValue(monthly_stats, "u1", "apollo_events") = 1

\* C19: an embed of the accounting bot whose title marks a new transaction
\* and whose body holds an amount and a mention is processed by the currency
\* extractor.
C19_CurrencyExtractor ==
    [][/\ Called("on_message")
       /\ bot_message.author = BOT_NAMES.accounting
       /\ bot_message.embed /\ ~bot_message.self
       /\ bot_message.title = "new transaction"
       /\ bot_message.description = << Amount(0 - 2), Mention("u1") >>
       => dispatch'.branch = "accounting"]_vars

\* The message is one of the four that are ignored: it has no embed, its
\* author's name is none of the names of BOT_NAMES, its embed has no
\* description, or the tracker itself posted it.
Ignored(msg) ==
    \/ ~msg.embed
    \/ msg.author \notin {BOT_NAMES[k] : k \in DOMAIN BOT_NAMES}
    \/ msg.description = << >>
    \/ msg.self

\* C20: on_message for an ignored message of a bot returns, and leaves both
\* counter tables, the voice and the activity sessions and the rental counts
\* as they were.
C20_IgnoredMessages ==
    [][Called("on_message") /\ Ignored(bot_message) =>
          /\ last'.outcome = "returned"
          /\ dispatch'.branch \in {"no_embed", "own", "unmatched"}
          /\ UNCHANGED << monthly_stats, overall_stats, voice_sessions,
                          activity_sessions, RENTAL_ITEM_COUNTS >>]_vars

\* An attendance list posted under the name "apollo" was given to
\* on_message: nobody has an attendance.
C20_Witness ==
    /\ last.op = "on_message" /\ dispatch.branch = "unmatched"
    /\ bot_message
          = Message("apollo", FALSE, TRUE, "-", << Accepted, Mention("u1") >>)
    /\ overall_stats = << >> /\ monthly_stats = << >>

\* C21: when an attendance embed is processed and the store does not fail, a
\* user whose member look-up fails gets no apollo_events, and every other
\* user gets one apollo_events in both tables for each of its mentions inside
\* the accepted span, wherever the failed look-ups stand among the mentions.
C21_MissingSkipsOnlyThatUser ==
    [][Called("on_message") /\ dispatch'.branch = "apollo"
                            /\ last'.fail = "none" =>
          \A u \in Users :
             LET inside == IF u \in dispatch'.missing THEN 0
                           ELSE Inside(bot_message.description, u)
             IN /\ Added(monthly_stats, monthly_stats', u, "apollo_events")
                      = inside
                /\ Added(overall_stats, overall_stats', u, "apollo_events")
                      = inside]_vars

\* The announcement "Accepted: u1, u2" was processed when the look-up of u1
\* failed: u2 has its attendance and u1 has none.
C21_Witness ==
    /\ last.op = "on_message" /\ last.fail = "none"
    /\ dispatch.branch = "apollo" /\ dispatch.missing = {"u1"}
    /\ bot_message.description = << Accepted, Mention("u1"), Mention("u2") >>
    /\ StatValue(overall_stats, "u1", "apollo_events") = 0
    /\ StatValue(overall_stats, "u2", "apollo_events") = 1
    /\ StatValue(monthly_stats, "u2", "apollo_events") = 1

\* C22: no job runs in overlapping instances.  At most one instance of
\* update_leaderboard and one of monthly_reset runs at any time; a trigger
\* that fires while an instance of its job runs is suppressed and leaves the
\* running instances as they are; and an instance begins only at a trigger
\* of its job that found none running, so a suppressed run is not queued.
C22_NoOverlappingInstances ==
    [][\A j \in JobIds :
          /\ Len(sched'.running[j]) <= 1
          /\ (Called("trigger") /\ last'.arg = j /\ sched.running[j] # << >>
                => last'.outcome = "suppressed" /\ sched'.running = sched.running)
          /\ (Len(sched'.running[j]) > Len(sched.running[j])
                => Called("trigger") /\ last'.arg = j /\ sched.running[j] = << >>)
      ]_vars

\* The trigger of the leaderboard update fired while an instance was about
\* to publish, and was suppressed.
C22_Witness ==
    /\ last.op = "trigger"
    /\ last.arg = "update_leaderboard"
    /\ last.outcome = "suppressed"
    /\ sched.running["update_leaderboard"] = << "update" >>

\* The largest monthly counter of a statistic, 0 when nobody has one.
Highest(table, stat) ==
    CHOOSE v \in {0} \cup {StatValue(table, u, stat) : u \in Users} :
       /\ v >= 0
       /\ \A u \in Users : StatValue(table, u, stat) <= v

\* C23: the month-end sequence.  The daily trigger starts the sequence only
\* on the last day of a month, and on any other day changes no counter, no
\* session and no leaderboard message.  The steps of a run are taken in the
\* order announce, reset, publish.  The announcement names, for each category,
\* the holder of the largest monthly counter as it stands at that moment and
\* leaves the counters alone; the reset that follows empties monthly_stats;
\* the publish comes last.
C23_MonthEndSequence ==
    [][/\ sched_log'.steps \in {<< >>, << "announce" >>,
                                << "announce", "reset" >>,
                                << "announce", "reset", "publish" >>}
       /\ (Called("trigger") /\ last'.arg = "monthly_reset"
             => /\ last'.outcome = "started" => sched.date.day = DaysInMonth
                /\ (sched.date.day = DaysInMonth
                       /\ sched.running["monthly_reset"] = << >>)
                      => last'.outcome = "started"
                /\ sched.date.day # DaysInMonth
                      => /\ sched'.running = sched.running
                         /\ UNCHANGED << monthly_stats, overall_stats,
                                         voice_sessions, activity_sessions,
                                         board_vars >>)
       /\ (Called("announce_monthly_winners") /\ last'.fail = "none"
             => /\ monthly_stats' = monthly_stats
                /\ sched_log'.sent
                /\ \A s \in STAT_CATEGORIES :
                      LET w == sched_log'.announced[s] IN
                      IF Highest(monthly_stats, s) = 0 THEN w = << >>
                      ELSE /\ Len(w) = 1
                           /\ w[1].value = Highest(monthly_stats, s)
                           /\ StatValue(monthly_stats, w[1].user_id, s)
                                 = w[1].value)
       /\ (Called("monthly_reset_task") /\ last'.fail = "none"
             => /\ monthly_stats' = << >>
                /\ overall_stats' = overall_stats
                /\ sched_log.steps = << "announce" >>)
      ]_vars

\* On the last day of a month the winner (u1, 3 messages, ahead of u2 with 2)
\* was announced, the monthly counters were cleared while the all-time ones
\* stayed, and the leaderboard was republished.
C23_Witness ==
    /\ last.op = "update_leaderboard"
    /\ last.arg = "monthly_reset"
    /\ sched_log.steps = << "announce", "reset", "publish" >>
    /\ sched_log.sent
    /\ Len(sched_log.announced["message_count"]) = 1
    /\ sched_log.announced["message_count"][1].user_id = "u1"
    /\ sched_log.announced["message_count"][1].value = 3
    /\ monthly_stats = << >>
    /\ StatValue(overall_stats, "u1", "message_count") = 3
    /\ StatValue(overall_stats, "u2", "message_count") = 2
    /\ sched.date.day = DaysInMonth

\* C24: the operator command tells the truth.  Whenever the command answers,
\* it confirms the update only if the publish run met no fault, and it
\* answers with the error whenever the run did not publish: the channel was
\* missing, or a send or an edit failed.
C24_ReportMatchesOutcome ==
    [][Called("leaderboard") /\ last'.arg # "none" =>
         /\ last'.arg = "updated" => last'.fail = "none"
         /\ last'.fail # "none" => last'.arg = "error"]_vars

\* The number of rows with is_active = 1.
ActiveCount(sessions) ==
    Cardinality({i \in 1..Len(sessions) : sessions[i].is_active = 1})

\* C26: the voice handler opens a session exactly when a member of the
\* tracked guild who is no bot goes from no channel to a channel, and closes
\* one only when such a member goes from a channel to no channel.  A move
\* between channels, a bot, and a member of another guild change no session
\* row and no counter.
C26_VoiceTransitions ==
    [][last'.op # "tick" =>
         LET e == task_log'.event
             member == e.guild = "home" /\ ~e.bot
             joins == member /\ e.before = "none" /\ e.after # "none"
             leaves == member /\ e.before # "none" /\ e.after = "none"
         IN /\ Len(voice_sessions') > Len(voice_sessions) <=> joins
            /\ joins => /\ Len(voice_sessions') = Len(voice_sessions) + 1
                        /\ ActiveCount(voice_sessions')
                              = ActiveCount(voice_sessions) + 1
            /\ ActiveCount(voice_sessions') < ActiveCount(voice_sessions)
                  => leaves
            /\ (leaves /\ HasActive(voice_sessions, e.user_id))
                  => ActiveCount(voice_sessions')
                        = ActiveCount(voice_sessions) - 1
            /\ ~joins /\ ~leaves
                  => UNCHANGED << voice_sessions, monthly_stats,
                                  overall_stats >>
            /\ ~leaves => UNCHANGED << monthly_stats, overall_stats >>
      ]_vars

\* A member in a voice channel moved to another channel: the session stayed
\* open and nothing was counted.
C26_Witness ==
    /\ last.op = "on_voice_state_update"
    /\ task_log.event.guild = "home"
    /\ ~task_log.event.bot
    /\ task_log.event.before = "c1"
    /\ task_log.event.after = "c2"
    /\ HasActive(voice_sessions, task_log.event.user_id)
    /\ ActiveCount(voice_sessions) = 1
    /\ overall_stats = << >>

\* C25: no increment is lost when handlers interleave.  Every counter equals
\* the sum of the amounts of the increments made so far, and once every
\* delivered handler has run its increments, every counter equals the sum of
\* the amounts of the events delivered.
C25_NoLostIncrement ==
    /\ \A u \in Users, s \in StatNames :
          /\ StatValue(overall_stats, u, s) = sum_overall[u][s]
          /\ StatValue(monthly_stats, u, s) = sum_monthly[u][s]
    /\ (\A i \in 1..Len(tasks) : tasks[i].pc # "start")
          => \A u \in Users, s \in StatNames :
                /\ StatValue(overall_stats, u, s) = task_log.delivered[u][s]
                /\ StatValue(monthly_stats, u, s) = task_log.delivered[u][s]

\* Two messages of one member were delivered before either handler ran;
\* both handlers have incremented and wait in bot.process_commands.
C25_Witness ==
    /\ Len(tasks) = 2
    /\ \A i \in 1..2 : /\ tasks[i].op = "on_message"
                       /\ tasks[i].user_id = "u1"
                       /\ tasks[i].pc = "process_commands"
                       /\ tasks[i].seen.overall = << >>
    /\ StatValue(overall_stats, "u1", "message_count") = 2
    /\ StatValue(monthly_stats, "u1", "message_count") = 2

\* C27: in every reachable state every user with a row in monthly_stats has
\* a row in overall_stats, and none of the user's monthly counters exceeds
\* the all-time counter of the same statistic.
C27_MonthlyWithinOverall ==
    \A u \in Users :
       RowIndex(monthly_stats, u) # 0 =>
          /\ RowIndex(overall_stats, u) # 0
          /\ \A s \in StatNames :
                StatValue(monthly_stats, u, s) <= StatValue(overall_stats, u, s)

\* C28: when the handlers of rental embeds interleave at the member look-up,
\* no increase is counted twice: as long as every look-up succeeded, the
\* rental_count of the member "a" equals the sum of the positive differences
\* between the successive stored counts of "a".
C28_NoIncreaseCountedTwice ==
    ~task_log.failed =>
       /\ StatValue(overall_stats, "u1", "rental_count") = task_log.gain["a"]
       /\ StatValue(monthly_stats, "u1", "rental_count") = task_log.gain["a"]

\* The number of ended activity sessions of the user.
EndedSessions(user_id) ==
    Cardinality({i \in 1..Len(activity_sessions) :
                    /\ activity_sessions[i].user_id = user_id
                    /\ activity_sessions[i].is_active = 0})

\* C29: a member started and then stopped the game.  Once the handlers of
\* both events have completed, every member look-up having succeeded, the
\* member has no active activity session, and the sessions converted into
\* lineage_time are as many as the stops delivered, under every interleaving
\* of the handlers at the member look-up.
C29_StartThenStop ==
    (tasks = << >> /\ ~task_log.failed) =>
       \A u \in Users :
          task_log.presence[u] = "stopped" =>
             /\ ~HasActive(activity_sessions, u)
             /\ EndedSessions(u) = task_log.delivered[u]["lineage_time"]

\* C30: an end of a session converts it exactly once, also when a statement
\* of the store fails.  For an end_voice_session call that finds an active
\* session of positive duration, the session becomes inactive if and only if
\* its duration is added to voice_time.
C30_InactiveIffCounted ==
    [][(/\ Called("end_voice_session")
        /\ HasActive(voice_sessions, "u1")
        /\ \A i \in ActiveRows(voice_sessions, "u1") :
              voice_sessions[i].join_time < LocalNow)
       => (ActiveCount(voice_sessions') < ActiveCount(voice_sessions)
             <=> StatValue(overall_stats', "u1", "voice_time")
                    > StatValue(overall_stats, "u1", "voice_time"))]_vars

\* C29, amended: when no handler of the member resumed before an earlier one
\* of the same member and every look-up succeeded, then once the handlers
\* have completed, a member whose last event is the stop has no active
\* activity session and as many sessions converted as stops delivered.
C29_StartThenStopInOrder ==
    (tasks = << >> /\ ~task_log.failed) =>
       \A u \in Users :
          (task_log.presence[u] = "stopped" /\ ~task_log.overtaken[u]) =>
             /\ ~HasActive(activity_sessions, u)
             /\ EndedSessions(u) = task_log.delivered[u]["lineage_time"]

\* The start and the stop of u1 were handled in order: the session is closed
\* and converted, and no handler is left.
C29_Witness ==
    /\ tasks = << >>
    /\ ~task_log.failed
    /\ task_log.presence["u1"] = "stopped"
    /\ ~task_log.overtaken["u1"]
    /\ last.op = "end_activity_session"
    /\ last.arg = "u1"
    /\ last.outcome = "committed"
    /\ EndedSessions("u1") = 1
    /\ ~HasActive(activity_sessions, "u1")

\* The kind was published by the run: its message was edited or sent.
Handled(did) == did \in {"edited", "created", "recreated"}

\* C31: within one publish run the two kinds are handled independently.  A
\* run in which a platform call for the monthly message raises an error
\* other than not-found still edits or sends the overall message.
C31_KindsIndependent ==
    [][Called("update_leaderboard") /\ last'.fail = "http_monthly"
          => Handled(publish_log'["overall"])]_vars

\* A new message was sent for the kind.
Sent(did) == did \in {"created", "recreated"}

\* The stored reference of the kind names a message that is in the channel.
LiveReference(kind) ==
    Exists(channel_messages,
           get_leaderboard_message(leaderboard_messages, kind))

\* C32: publish runs that overlap never send two new messages for one kind.
\* A run sends a new message for a kind only while the stored reference of
\* that kind is absent or names a deleted message: a run that began without
\* a usable reference does not send after another run sent and saved.
C32_OneNewMessage ==
    [][\A k \in Kinds :
          (Called("update_leaderboard") /\ last'.arg = k
              /\ Sent(last'.outcome))
             => ~LiveReference(k)]_vars

====
